---- MODULE Spec2Model ----
(***************************************************************************)
(* Model of the signal-to-trade simulation engine (Strategy.backtest in    *)
(* src/src/strategies/strategy.py) and of the prediction outcome evaluator *)
(* (PredictionTracker.evaluate_prediction_outcome / calculate_outcome in   *)
(* src/src/performance/prediction_tracker.py).                             *)
(*                                                                         *)
(* Numbers.  Prices are integers.  The engine's percentage levels          *)
(* close * (1 - 0.08) etc. are kept exactly as integers in hundredths of a *)
(* price unit (close * (100 - 8)), and compared with 100 * close.  A       *)
(* return_pct is an exact fraction [num, den] with den > 0.                *)
(***************************************************************************)
EXTENDS Integers, Sequences, FiniteSets, TLC

\* ---------------------------------------------------------------- bounds
MaxLen == 3
MaxMinPoints == 1
EvalMaxLen == 3
MaxIssued == 1

\* ------------------------------------------------------ program constants
position_size == 100
ProfitPct == 15
StopPct == 8
max_days == 30

\* ------------------------------------------------------------ input sets
Closes == {80, 100, 105, 120}
Dates == 1..(MaxLen + 1)
SignalTypes == {"long", "short", "exit", "hold"}

VARIABLES
    data_points,   \* backtest: the bars in the date range, <<[date, close]>>
    min_points,    \* backtest: get_min_required_points()
    i,             \* backtest: loop index (Python, 0-based)
    signal,        \* backtest: signal returned by generate_signals on the last bar
    position,      \* backtest: None or the open position dict
    trades,        \* backtest: list of Trade
    opened,        \* backtest: number of position dicts created so far
    pc,            \* backtest: "start", "loop", "done", or "off"
    e_points,      \* evaluator: data_points of the cache file
    date_issued,   \* evaluator: start_date
    pred_type,     \* evaluator: "LONG", "SHORT" or "CLOSE"
    entry_price,   \* evaluator argument
    stop_loss,     \* evaluator argument
    take_profit,   \* evaluator argument
    k,             \* evaluator: index of the next bar of the for loop (0-based)
    result,        \* evaluator: None or the dict returned
    outcome_type,  \* evaluator: the outcome_type passed to calculate_outcome
    epc,           \* evaluator: "idle", "loop", "returned", or "off"
    predictions,   \* tracker: rows of the predictions table, in id order
    cache,         \* tracker: the symbol's historical cache file
    today,         \* tracker: the current date, date('now')
    updated_count, \* tracker: value returned by the last update pass
    last_op,       \* tracker: the operation that ran last, or "off"
    strategy_weights,    \* ensemble: self.strategy_weights, in units of 1/10000
    performance_history, \* ensemble: self.performance_history, scores in tenths
    processing,          \* ensemble: the symbol the ensemble was last called for
    evals,               \* ensemble: number of performance evaluations so far
    updates,             \* ensemble: number of weight updates so far
    prev_weights,        \* ensemble: strategy_weights before the last operation
    ens_op,              \* ensemble: the operation that ran last, or "off"
    component_signals,   \* combination: what each component's generate_signals returned
    enough_points,       \* combination: index >= get_min_required_points()
    combined,            \* combination: the tuple generate_signals returned
    component,   \* ensemble backtest: number of the component strategy being run
    strategy_results,   \* ensemble backtest: the trade lists of the components already run
    all_trades,  \* ensemble backtest: the trades of the BacktestResult returned
    triggers,   \* triggers: rows of the trading_triggers table, in id order
    emitted,   \* triggers: the list the last generation cycle returned
    cycles,  \* triggers: number of generation cycles so far
    bar_signals,   \* performance evaluation: the signal the component gives on each bar of the window
    returns,   \* performance evaluation: the per-trade returns collected so far
    eval_position,   \* performance evaluation: "none", "long" or "short"
    eval_entry_price,   \* performance evaluation: close of the entry bar
    point_idx,   \* performance evaluation: number of evaluation points processed
    performance_score,   \* performance evaluation: the score appended to performance_history, or Null
    perf_pc,  \* performance evaluation: "start", "loop", "done", or "off"
    historical,   \* buy and hold: historical.data_points of the symbol
    start_date,   \* buy and hold: argument
    end_date,   \* buy and hold: argument
    start_price,   \* buy and hold: None or a close
    end_price,   \* buy and hold: None or a close
    bh_idx,   \* buy and hold: number of points the loop has processed
    baseline,   \* buy and hold: None or the dict returned
    bh_pc   \* buy and hold: "loop", "done", or "off"

bvars == <<data_points, min_points, i, signal, position, trades, opened, pc>>
evars == <<e_points, date_issued, pred_type, entry_price, stop_loss, take_profit, k, result, outcome_type, epc>>
tvars == <<predictions, cache, today, updated_count, last_op>>
vars == <<data_points, min_points, i, signal, position, trades, opened, pc,
          e_points, date_issued, pred_type, entry_price, stop_loss, take_profit, k, result, outcome_type, epc,
          predictions, cache, today, updated_count, last_op,
          strategy_weights, performance_history, processing, evals, updates, prev_weights, ens_op,
          component_signals, enough_points, combined,
          component, strategy_results, all_trades,
          triggers, emitted, cycles,
          bar_signals, returns, eval_position, eval_entry_price, point_idx, performance_score, perf_pc,
          historical, start_date, end_date, start_price, end_price, bh_idx, baseline, bh_pc>>
wvars == <<strategy_weights, performance_history, processing, evals, updates, prev_weights, ens_op>>
svars == <<component_signals, enough_points, combined>>
mvars == <<component, strategy_results, all_trades>>
gvars == <<triggers, emitted, cycles>>
pvars == <<bar_signals, returns, eval_position, eval_entry_price, point_idx, performance_score, perf_pc>>
hvars == <<historical, start_date, end_date, start_price, end_price, bh_idx, baseline, bh_pc>>

\* what a step of one component leaves alone
NotBacktest == <<evars, tvars, wvars, svars, mvars, gvars, pvars, hvars>>
NotEval == <<bvars, tvars, wvars, svars, mvars, gvars, pvars, hvars>>
NotTracker == <<bvars, evars, wvars, svars, mvars, gvars, pvars, hvars>>
NotEnsemble == <<bvars, evars, tvars, mvars, gvars, pvars, hvars>>
NotMerge == <<evars, tvars, wvars, svars, gvars, pvars, hvars>>
NotTriggers == <<bvars, evars, wvars, svars, mvars, pvars, hvars>>
NotPerformance == <<bvars, evars, tvars, wvars, svars, mvars, gvars, hvars>>
NotBuyHold == <<bvars, evars, tvars, wvars, svars, mvars, gvars, pvars>>

MergeOff ==
    /\ component = 0
    /\ strategy_results = <<>>
    /\ all_trades = <<>>

TriggersOff ==
    /\ triggers = <<>>
    /\ emitted = <<>>
    /\ cycles = 0

PerformanceOff ==
    /\ bar_signals = <<>>
    /\ returns = <<>>
    /\ eval_position = "none"
    /\ eval_entry_price = 0
    /\ point_idx = 0
    /\ performance_score = <<>>
    /\ perf_pc = "off"

BuyHoldOff ==
    /\ historical = <<>>
    /\ start_date = 0
    /\ end_date = 0
    /\ start_price = <<>>
    /\ end_price = <<>>
    /\ bh_idx = 0
    /\ baseline = <<>>
    /\ bh_pc = "off"

TrackerOff ==
    /\ predictions = <<>>
    /\ cache = [status |-> "missing", data_points |-> <<>>]
    /\ today = 0
    /\ updated_count = 0
    /\ last_op = "off"

Components == {"A", "B", "C"}
Symbols == {"X", "Y"}

\* ensemble.py:17  1.0, in units of 1/10000
InitialWeight == 10000

NoCombined == [signal |-> "none"]

EnsembleOff ==
    /\ strategy_weights = [c \in Components |-> InitialWeight]
    /\ performance_history = [c \in Components |-> <<>>]
    /\ processing = "X"
    /\ evals = 0
    /\ updates = 0
    /\ prev_weights = [c \in Components |-> InitialWeight]
    /\ ens_op = "off"
    /\ component_signals = [c \in Components |-> [signal |-> "hold", confidence |-> 0]]
    /\ enough_points = FALSE
    /\ combined = NoCombined

\* ------------------------------------------------------------- fractions
Frac(n, d) == [num |-> n, den |-> d]
Sign(x) == IF x > 0 THEN 1 ELSE IF x < 0 THEN -1 ELSE 0
FracSign(f) == Sign(f.num) * Sign(f.den)
FracEq(f, g) == f.num * g.den = g.num * f.den

\* =================================================== the backtest engine
NoPosition == [type |-> "none"]

\* Strictly increasing dates, as in a HistoricalData series.
Increasing(s) == \A a \in 1..(Len(s) - 1) : s[a].date < s[a + 1].date

SeriesOfLen(n) == {s \in [1..n -> [date : Dates, close : Closes]] : Increasing(s)}

AllSeries == UNION {SeriesOfLen(n) : n \in 0..MaxLen}

\* data_points[j] for a Python index j
Point(j) == data_points[j + 1]

\* strategy.py:223  current_close * (1 - self.stop_loss if signal == 'long' else -self.stop_loss)
\* (in hundredths)
StopLossLevel(sig, close) == close * (IF sig = "long" THEN 100 - StopPct ELSE 0 - StopPct)

\* strategy.py:224  current_close * (1 + self.profit_target if signal == 'long' else -self.profit_target)
ProfitTargetLevel(sig, close) == close * (IF sig = "long" THEN 100 + ProfitPct ELSE 0 - ProfitPct)

\* variant: the entry test without "position is None"
CanEnter_NoGuard(pos, sig) == sig \in {"long", "short"}

\* strategy.py:217  position is None and signal in ['long', 'short']
CanEnter(pos, sig) == pos = NoPosition /\ sig \in {"long", "short"}

\* strategy.py:229-235
ShouldExit(pos, sig, close) ==
    IF pos.type = "long"
    THEN sig = "exit" \/ 100 * close <= pos.stop_loss \/ 100 * close >= pos.profit_target
    ELSE sig = "exit" \/ 100 * close >= pos.stop_loss \/ 100 * close <= pos.profit_target

\* strategy.py:302-306
calculate_pnl(position_type, exit_price, entry, size) ==
    IF position_type = "long" THEN (exit_price - entry) * size
    ELSE (entry - exit_price) * size

\* variant: the short return divided by the entry price
calculate_return_EntryDenominator(position_type, exit_price, entry) ==
    IF position_type = "long" THEN Frac(exit_price - entry, entry)
    ELSE Frac(entry - exit_price, entry)

\* strategy.py:308-312   exit/entry - 1  and  entry/exit - 1
calculate_return(position_type, exit_price, entry) ==
    IF position_type = "long" THEN Frac(exit_price - entry, entry)
    ELSE Frac(entry - exit_price, exit_price)

\* strategy.py:238-247 and 253-262
MakeTrade(pos, date, close) ==
    [entry_date |-> pos.entry_date,
     entry_price |-> pos.entry_price,
     exit_date |-> date,
     exit_price |-> close,
     type |-> pos.type,
     pnl |-> calculate_pnl(pos.type, close, pos.entry_price, pos.size),
     return_pct |-> calculate_return(pos.type, close, pos.entry_price),
     size |-> pos.size]

EvalOff ==
    /\ e_points = <<>>
    /\ date_issued = 0
    /\ pred_type = "CLOSE"
    /\ entry_price = 0
    /\ stop_loss = 0
    /\ take_profit = 0
    /\ k = 0
    /\ result = [outcome |-> "none"]
    /\ outcome_type = "none"
    /\ epc = "off"

Init ==
    /\ BuyHoldOff
    /\ PerformanceOff
    /\ TriggersOff
    /\ MergeOff
    /\ data_points \in AllSeries
    /\ min_points \in 0..MaxMinPoints
    /\ i = 0
    /\ signal = "hold"
    /\ position = NoPosition
    /\ trades = <<>>
    /\ opened = 0
    /\ pc = "start"
    /\ EvalOff
    /\ TrackerOff
    /\ EnsembleOff

\* strategy.py:201-203  too few points: empty result
InsufficientData ==
    /\ pc = "start"
    /\ Len(data_points) < min_points
    /\ pc' = "done"
    /\ UNCHANGED <<data_points, min_points, i, signal, position, trades, opened>>
    /\ UNCHANGED NotBacktest

\* strategy.py:205-209
BeginLoop ==
    /\ pc = "start"
    /\ Len(data_points) >= min_points
    /\ trades' = <<>>
    /\ position' = NoPosition
    /\ i' = min_points
    /\ pc' = "loop"
    /\ UNCHANGED <<data_points, min_points, signal, opened>>
    /\ UNCHANGED NotBacktest

\* variant: the exit test as a second "if" instead of "elif"
LoopBody_ExitSameBar ==
    /\ pc = "loop"
    /\ i < Len(data_points)
    /\ \E sig \in SignalTypes :
        LET date == Point(i).date
            current_close == Point(i).close
            entered == IF CanEnter(position, sig)
                       THEN [type |-> sig,
                             entry_date |-> date,
                             entry_price |-> current_close,
                             size |-> position_size,
                             stop_loss |-> StopLossLevel(sig, current_close),
                             profit_target |-> ProfitTargetLevel(sig, current_close)]
                       ELSE position
        IN  /\ signal' = sig
            /\ opened' = IF CanEnter(position, sig) THEN opened + 1 ELSE opened
            /\ IF entered # NoPosition /\ ShouldExit(entered, sig, current_close)
               THEN /\ trades' = Append(trades, MakeTrade(entered, date, current_close))
                    /\ position' = NoPosition
               ELSE /\ position' = entered
                    /\ UNCHANGED trades
    /\ i' = i + 1
    /\ UNCHANGED <<data_points, min_points, pc>>
    /\ UNCHANGED NotBacktest

\* strategy.py:209-248  one iteration of the loop
LoopBody ==
    /\ pc = "loop"
    /\ i < Len(data_points)
    /\ \E sig \in SignalTypes :
        LET date == Point(i).date
            current_close == Point(i).close
        IN  /\ signal' = sig
            /\ IF CanEnter(position, sig)
               THEN /\ position' = [type |-> sig,
                                    entry_date |-> date,
                                    entry_price |-> current_close,
                                    size |-> position_size,
                                    stop_loss |-> StopLossLevel(sig, current_close),
                                    profit_target |-> ProfitTargetLevel(sig, current_close)]
                    /\ opened' = opened + 1
                    /\ UNCHANGED trades
               ELSE IF position # NoPosition
               THEN IF ShouldExit(position, sig, current_close)
                    THEN /\ trades' = Append(trades, MakeTrade(position, date, current_close))
                         /\ position' = NoPosition
                         /\ UNCHANGED opened
                    ELSE UNCHANGED <<position, trades, opened>>
               ELSE UNCHANGED <<position, trades, opened>>
    /\ i' = i + 1
    /\ UNCHANGED <<data_points, min_points, pc>>
    /\ UNCHANGED NotBacktest

\* variant: the run ends without closing the open position
CloseAtEnd_NoForceClose ==
    /\ pc = "loop"
    /\ i >= Len(data_points)
    /\ pc' = "done"
    /\ UNCHANGED <<data_points, min_points, i, signal, position, trades, opened>>
    /\ UNCHANGED NotBacktest

\* strategy.py:250-264  close any open position at the end
CloseAtEnd ==
    /\ pc = "loop"
    /\ i >= Len(data_points)
    /\ IF position # NoPosition
       THEN LET last_point == data_points[Len(data_points)]
            IN  trades' = Append(trades, MakeTrade(position, last_point.date, last_point.close))
       ELSE UNCHANGED trades
    /\ pc' = "done"
    /\ UNCHANGED <<data_points, min_points, i, signal, position, opened>>
    /\ UNCHANGED NotBacktest

Next == InsufficientData \/ BeginLoop \/ LoopBody \/ CloseAtEnd

Spec == Init /\ [][Next]_vars

\* ================================================ the outcome evaluator
NoResult == [outcome |-> "none"]

EntryPrices == {100}
Levels == {95, 110}
Lows == {94, 100}
Highs == {100, 111}
Gaps == {1, max_days}
PredTypes == {"LONG", "SHORT", "CLOSE"}

\* one bar of the cache file, with the number of days since the previous bar
BarInputs == {b \in [low : Lows, high : Highs, close : Lows \cup Highs, gap : Gaps] :
                b.close \in {b.low, b.high}}

\* chronologically ordered bars with their dates, the first gap counted from day 0
RECURSIVE MkSeries(_)
MkSeries(g) ==
    IF Len(g) = 0 THEN <<>>
    ELSE LET front == MkSeries(SubSeq(g, 1, Len(g) - 1))
             b == g[Len(g)]
             prev == IF Len(front) = 0 THEN 0 ELSE front[Len(front)].date
         IN  Append(front, [date |-> prev + b.gap, low |-> b.low, high |-> b.high, close |-> b.close])

BacktestOff ==
    /\ data_points = <<>>
    /\ min_points = 0
    /\ i = 0
    /\ signal = "hold"
    /\ position = NoPosition
    /\ trades = <<>>
    /\ opened = 0
    /\ pc = "off"

InitEval ==
    /\ BuyHoldOff
    /\ PerformanceOff
    /\ TriggersOff
    /\ MergeOff
    /\ BacktestOff
    /\ TrackerOff
    /\ EnsembleOff
    /\ \E n \in 0..EvalMaxLen : \E g \in [1..n -> BarInputs] : e_points = MkSeries(g)
    /\ date_issued = 0
    /\ pred_type = "CLOSE"
    /\ entry_price = 0
    /\ stop_loss = 0
    /\ take_profit = 0
    /\ k = 0
    /\ result = NoResult
    /\ outcome_type = "none"
    /\ epc = "idle"

\* prediction_tracker.py:290-312  the call with its arguments, up to the loop
EvalBegin ==
    /\ epc = "idle"
    /\ date_issued' \in 0..MaxIssued
    /\ pred_type' \in PredTypes
    /\ entry_price' \in EntryPrices
    /\ \E sl \in Levels, tp \in Levels :
        /\ sl # tp
        /\ stop_loss' = sl
        /\ take_profit' = tp
    /\ k' = 0
    /\ epc' = "loop"
    /\ UNCHANGED <<e_points, result, outcome_type>>
    /\ UNCHANGED NotEval

\* the bar the for loop is at
Bar == e_points[k + 1]

\* variant: only bars before date_issued are passed over
Skipped_Strict(day_data) == day_data.date < date_issued

\* prediction_tracker.py:317  day_date <= start_date
Skipped(day_data) == day_data.date <= date_issued

\* prediction_tracker.py:320  (day_date - start_date).days
DaysHeld(day_data) == day_data.date - date_issued

\* variant: a timeout with return_pct >= 0 is a success
calculate_outcome_NonNegative(ptype, entry, exit_price, days_held, exit_date, otype) ==
    LET pnl == IF ptype = "LONG" THEN exit_price - entry
               ELSE IF ptype = "SHORT" THEN entry - exit_price ELSE 0
        return_pct == IF ptype = "LONG" THEN Frac(exit_price - entry, entry)
                      ELSE IF ptype = "SHORT" THEN Frac(entry - exit_price, entry)
                      ELSE Frac(0, 1)
        outcome == IF otype = "target_hit" THEN "success"
                   ELSE IF otype = "stop_loss" THEN "failure"
                   ELSE IF FracSign(return_pct) >= 0 THEN "success" ELSE "failure"
    IN  [outcome |-> outcome, exit_price |-> exit_price, exit_date |-> exit_date,
         pnl |-> pnl, return_pct |-> return_pct, days_held |-> days_held]

\* prediction_tracker.py:364-393 (action, stop_loss and take_profit are not used by the body)
calculate_outcome(ptype, entry, exit_price, days_held, exit_date, otype) ==
    LET pnl == IF ptype = "LONG" THEN exit_price - entry
               ELSE IF ptype = "SHORT" THEN entry - exit_price ELSE 0
        return_pct == IF ptype = "LONG" THEN Frac(exit_price - entry, entry)
                      ELSE IF ptype = "SHORT" THEN Frac(entry - exit_price, entry)
                      ELSE Frac(0, 1)
        outcome == IF otype = "target_hit" THEN "success"
                   ELSE IF otype = "stop_loss" THEN "failure"
                   ELSE IF FracSign(return_pct) > 0 THEN "success" ELSE "failure"
    IN  [outcome |-> outcome, exit_price |-> exit_price, exit_date |-> exit_date,
         pnl |-> pnl, return_pct |-> return_pct, days_held |-> days_held]

\* return self.calculate_outcome(...)
Return(exit_price, otype) ==
    /\ result' = calculate_outcome(pred_type, entry_price, exit_price, DaysHeld(Bar), Bar.date, otype)
    /\ outcome_type' = otype
    /\ epc' = "returned"
    /\ UNCHANGED k

Continue ==
    /\ k' = k + 1
    /\ UNCHANGED <<result, outcome_type, epc>>

\* prediction_tracker.py:314-318  a bar on or before date_issued
EvalSkip ==
    /\ epc = "loop"
    /\ k < Len(e_points)
    /\ Skipped(Bar)
    /\ Continue
    /\ UNCHANGED <<e_points, date_issued, pred_type, entry_price, stop_loss, take_profit>>
    /\ UNCHANGED NotEval

\* prediction_tracker.py:320-327
EvalTimeout ==
    /\ epc = "loop"
    /\ k < Len(e_points)
    /\ ~Skipped(Bar)
    /\ DaysHeld(Bar) > max_days
    /\ Return(Bar.close, "timeout")
    /\ UNCHANGED <<e_points, date_issued, pred_type, entry_price, stop_loss, take_profit>>
    /\ UNCHANGED NotEval

\* variant: the target is tested before the stop
EvalLong_TargetFirst ==
    /\ epc = "loop"
    /\ k < Len(e_points)
    /\ ~Skipped(Bar)
    /\ DaysHeld(Bar) <= max_days
    /\ pred_type = "LONG"
    /\ IF Bar.high >= take_profit THEN Return(take_profit, "target_hit")
       ELSE IF Bar.low <= stop_loss THEN Return(stop_loss, "stop_loss")
       ELSE Continue
    /\ UNCHANGED <<e_points, date_issued, pred_type, entry_price, stop_loss, take_profit>>
    /\ UNCHANGED NotEval

\* prediction_tracker.py:334-346
EvalLong ==
    /\ epc = "loop"
    /\ k < Len(e_points)
    /\ ~Skipped(Bar)
    /\ DaysHeld(Bar) <= max_days
    /\ pred_type = "LONG"
    /\ IF Bar.low <= stop_loss THEN Return(stop_loss, "stop_loss")
       ELSE IF Bar.high >= take_profit THEN Return(take_profit, "target_hit")
       ELSE Continue
    /\ UNCHANGED <<e_points, date_issued, pred_type, entry_price, stop_loss, take_profit>>
    /\ UNCHANGED NotEval

\* prediction_tracker.py:348-360
EvalShort ==
    /\ epc = "loop"
    /\ k < Len(e_points)
    /\ ~Skipped(Bar)
    /\ DaysHeld(Bar) <= max_days
    /\ pred_type = "SHORT"
    /\ IF Bar.high >= stop_loss THEN Return(stop_loss, "stop_loss")
       ELSE IF Bar.low <= take_profit THEN Return(take_profit, "target_hit")
       ELSE Continue
    /\ UNCHANGED <<e_points, date_issued, pred_type, entry_price, stop_loss, take_profit>>
    /\ UNCHANGED NotEval

\* variant: a type that is neither LONG nor SHORT is tested against the stop
EvalOther_TestsStop ==
    /\ epc = "loop"
    /\ k < Len(e_points)
    /\ ~Skipped(Bar)
    /\ DaysHeld(Bar) <= max_days
    /\ pred_type \notin {"LONG", "SHORT"}
    /\ IF Bar.low <= stop_loss THEN Return(stop_loss, "stop_loss") ELSE Continue
    /\ UNCHANGED <<e_points, date_issued, pred_type, entry_price, stop_loss, take_profit>>
    /\ UNCHANGED NotEval

\* prediction_tracker.py:334, 348  neither LONG nor SHORT: no bound is tested
EvalOther ==
    /\ epc = "loop"
    /\ k < Len(e_points)
    /\ ~Skipped(Bar)
    /\ DaysHeld(Bar) <= max_days
    /\ pred_type \notin {"LONG", "SHORT"}
    /\ Continue
    /\ UNCHANGED <<e_points, date_issued, pred_type, entry_price, stop_loss, take_profit>>
    /\ UNCHANGED NotEval

\* prediction_tracker.py:362  the bars are exhausted: return None
EvalExhausted ==
    /\ epc = "loop"
    /\ k >= Len(e_points)
    /\ epc' = "returned"
    /\ UNCHANGED <<e_points, date_issued, pred_type, entry_price, stop_loss, take_profit, k, result, outcome_type>>
    /\ UNCHANGED NotEval

NextEval == EvalBegin \/ EvalSkip \/ EvalTimeout \/ EvalLong \/ EvalShort \/ EvalOther \/ EvalExhausted

SpecEval == InitEval /\ [][NextEval]_vars

\* ============================================ properties of the backtest engine

\* positions opened and not yet turned into a Trade
OpenCount == opened - Len(trades)

\* C1: during a run at most one position is open: the number of positions
\* opened and not yet closed is 0 or 1 and is 1 exactly when the position
\* variable holds a position; a position is opened only when none is open,
\* and a bar that finds a position open and leaves one open leaves the very
\* same position (type, entry date, entry price, levels).
C1_SinglePosition ==
    /\ [](pc = "loop" => /\ OpenCount \in {0, 1}
                         /\ (OpenCount = 1 <=> position # NoPosition))
    /\ [][/\ (opened' # opened => position = NoPosition /\ opened' = opened + 1)
          /\ (position # NoPosition /\ position' # NoPosition => position' = position)]_vars

\* C1 witness: a long/short signal arrived on a bar after the entry bar and
\* the position is still the one opened earlier.
C1_Witness ==
    /\ pc = "loop"
    /\ i > 0
    /\ position # NoPosition
    /\ signal \in {"long", "short"}
    /\ position.entry_date < Point(i - 1).date

\* the close is at or beyond the stop level, on the adverse side of the entry
AdverseCross(pos, close) ==
    IF pos.type = "long"
    THEN 100 * close <= pos.stop_loss /\ close < pos.entry_price
    ELSE 100 * close >= pos.stop_loss /\ close > pos.entry_price

\* the close is at or beyond the target level, on the favourable side of the entry
FavourableCross(pos, close) ==
    IF pos.type = "long"
    THEN 100 * close >= pos.profit_target /\ close > pos.entry_price
    ELSE 100 * close <= pos.profit_target /\ close < pos.entry_price

\* C2: on a bar where a position is open, the position is closed (one Trade
\* emitted, state Flat) if and only if the signal is exit, or the close has
\* crossed the stop level on the adverse side, or the close has crossed the
\* target level on the favourable side.
C2_CloseIffExitStopOrTarget ==
    [][(pc = "loop" /\ pc' = "loop" /\ position # NoPosition) =>
        ((position' = NoPosition /\ Len(trades') = Len(trades) + 1)
          <=> (\/ signal' = "exit"
               \/ AdverseCross(position, Point(i).close)
               \/ FavourableCross(position, Point(i).close)))]_vars

\* C3: an open Long has stop_loss = p*(1 - stop_pct) and take_profit =
\* p*(1 + profit_pct); an open Short has stop_loss = p*(1 + stop_pct) and
\* take_profit = p*(1 - profit_pct) (levels in hundredths); the stop is
\* strictly on the adverse side and the target strictly on the favourable side.
C3_EntryLevels ==
    position # NoPosition =>
        LET p == position.entry_price
        IN  IF position.type = "long"
            THEN /\ position.stop_loss = p * (100 - StopPct)
                 /\ position.profit_target = p * (100 + ProfitPct)
                 /\ position.stop_loss < 100 * p
                 /\ position.profit_target > 100 * p
            ELSE /\ position.stop_loss = p * (100 + StopPct)
                 /\ position.profit_target = p * (100 - ProfitPct)
                 /\ position.stop_loss > 100 * p
                 /\ position.profit_target < 100 * p

\* C4: the run starts with no position and no trades; when it is done the
\* number of Trades equals the number of positions opened, and a position
\* still open at the end of the series was turned into the last Trade at
\* the last bar's date and close.
C4_EndsFlat ==
    /\ (pc = "start" => position = NoPosition /\ trades = <<>> /\ opened = 0)
    /\ (pc = "done" =>
          /\ Len(trades) = opened
          /\ (position # NoPosition =>
                LET t == trades[Len(trades)]
                    last_point == data_points[Len(data_points)]
                IN  /\ t.entry_date = position.entry_date
                    /\ t.entry_price = position.entry_price
                    /\ t.type = position.type
                    /\ t.exit_date = last_point.date
                    /\ t.exit_price = last_point.close))

\* C4 witness: a finished run whose position, opened before the last bar,
\* was still open when the series ended and was force-closed.
C4_Witness ==
    /\ pc = "done"
    /\ position # NoPosition
    /\ Len(trades) >= 1
    /\ trades[Len(trades)].entry_date < trades[Len(trades)].exit_date

\* C5: every Trade has entry_date <= exit_date; a Trade closed by the loop
\* has entry_date < exit_date; equality occurs only for the last Trade of a
\* finished run, whose position was opened on the last bar and force-closed.
C5_EntryNotAfterExit ==
    \A n \in 1..Len(trades) :
        /\ trades[n].entry_date <= trades[n].exit_date
        /\ (trades[n].entry_date = trades[n].exit_date =>
              /\ pc = "done"
              /\ n = Len(trades)
              /\ position # NoPosition
              /\ trades[n].entry_date = data_points[Len(data_points)].date)

\* C5 witness: a loop-closed Trade followed by a Trade opened and
\* force-closed on the last bar.
C5_Witness ==
    /\ pc = "done"
    /\ Len(trades) >= 2
    /\ trades[Len(trades)].entry_date = trades[Len(trades)].exit_date
    /\ trades[1].entry_date < trades[1].exit_date

\* C6: a Long Trade has pnl = (exit - entry)*size and return_pct =
\* exit/entry - 1; a Short Trade has pnl = (entry - exit)*size and
\* return_pct = entry/exit - 1; the sign of pnl is the sign of return_pct.
C6_PnlAndReturn ==
    \A n \in 1..Len(trades) :
        LET t == trades[n]
        IN  /\ t.type = "long" =>
                /\ t.pnl = (t.exit_price - t.entry_price) * t.size
                /\ (t.return_pct.num + t.return_pct.den) * t.entry_price
                     = t.exit_price * t.return_pct.den
            /\ t.type = "short" =>
                /\ t.pnl = (t.entry_price - t.exit_price) * t.size
                /\ (t.return_pct.num + t.return_pct.den) * t.exit_price
                     = t.entry_price * t.return_pct.den
            /\ t.return_pct.den > 0
            /\ Sign(t.pnl) = FracSign(t.return_pct)

\* C6 witness: a run with a losing Short Trade and a Long Trade.
C6_Witness ==
    /\ \E n \in 1..Len(trades) : trades[n].type = "short" /\ trades[n].pnl < 0
    /\ \E n \in 1..Len(trades) : trades[n].type = "long"

\* ========================================= properties of the outcome evaluator

StopTouched(b) ==
    IF pred_type = "LONG" THEN b.low <= stop_loss
    ELSE IF pred_type = "SHORT" THEN b.high >= stop_loss
    ELSE FALSE

TargetTouched(b) ==
    IF pred_type = "LONG" THEN b.high >= take_profit
    ELSE IF pred_type = "SHORT" THEN b.low <= take_profit
    ELSE FALSE

\* bars (1-based) dated after date_issued
Later == {n \in 1..Len(e_points) : e_points[n].date > date_issued}

\* the earliest bar after date_issued that satisfies P, as a set of 0 or 1 index
First(P(_)) == {n \in Later : P(e_points[n]) /\ \A m \in Later : m < n => ~P(e_points[m])}

Touched(b) == StopTouched(b) \/ TargetTouched(b)

\* C7: stop-loss has priority.  An outcome that is target_hit was decided on
\* a bar such that no bar after date_issued up to and including it touched
\* the stop; and when the earliest bar (after date_issued, within max_days)
\* that touches a bound touches the stop, the outcome is stop_loss on that
\* bar with exit price stop_loss and label failure, even if the same bar
\* also touches the target.
C7_StopPriority ==
    epc = "returned" =>
        /\ (outcome_type = "target_hit" =>
              \A n \in Later : n <= k + 1 => ~StopTouched(e_points[n]))
        /\ \A n \in First(Touched) :
              (StopTouched(e_points[n]) /\ DaysHeld(e_points[n]) <= max_days) =>
                  /\ outcome_type = "stop_loss"
                  /\ k + 1 = n
                  /\ result.outcome = "failure"
                  /\ result.exit_price = stop_loss
                  /\ result.exit_date = e_points[n].date

\* C7 witness: a bar touching both the stop and the target decided stop_loss.
C7_Witness ==
    /\ epc = "returned"
    /\ outcome_type = "stop_loss"
    /\ k < Len(e_points)
    /\ StopTouched(Bar)
    /\ TargetTouched(Bar)
    /\ stop_loss < entry_price
    /\ pred_type = "LONG"

\* C8 (as stated): for a Long prediction, if no bar after date_issued up to
\* the first one with high >= take_profit has low <= stop_loss, the outcome
\* is target_hit on exactly that bar, with exit price take_profit, exit date
\* that bar's date and return_pct = (take_profit - entry_price)/entry_price.
C8_Original ==
    (epc = "returned" /\ pred_type = "LONG") =>
        \A n \in First(TargetTouched) :
            (\A m \in Later : m <= n => ~StopTouched(e_points[m])) =>
                /\ outcome_type = "target_hit"
                /\ k + 1 = n
                /\ result.exit_price = take_profit
                /\ result.exit_date = e_points[n].date
                /\ FracEq(result.return_pct, Frac(take_profit - entry_price, entry_price))

\* C8 (amended): the same, provided that first bar with high >= take_profit
\* is dated at most max_days after date_issued; bars dated on or before
\* date_issued play no part.
C8_TargetOnFirstBar ==
    (epc = "returned" /\ pred_type = "LONG") =>
        \A n \in First(TargetTouched) :
            (/\ \A m \in Later : m <= n => ~StopTouched(e_points[m])
             /\ DaysHeld(e_points[n]) <= max_days) =>
                /\ outcome_type = "target_hit"
                /\ k + 1 = n
                /\ result.exit_price = take_profit
                /\ result.exit_date = e_points[n].date
                /\ result.days_held = DaysHeld(e_points[n])
                /\ FracEq(result.return_pct, Frac(take_profit - entry_price, entry_price))

\* C8 witness: a winning target_hit decided on a bar that follows a bar dated
\* on date_issued which touched a bound and was passed over.
C8_Witness ==
    /\ epc = "returned"
    /\ pred_type = "LONG"
    /\ outcome_type = "target_hit"
    /\ take_profit > entry_price
    /\ k >= 1
    /\ e_points[1].date = date_issued
    /\ e_points[1].low <= stop_loss

\* C9: every outcome returned has days_held <= max_days, and a timeout exits
\* at the close of the bar it is decided on.
C9_HoldingCap ==
    result # NoResult =>
        /\ result.days_held <= max_days
        /\ (outcome_type = "timeout" => result.exit_price = Bar.close)

\* C10: target_hit is labelled success, stop_loss failure, and timeout
\* success exactly when the realized return is strictly positive (exit above
\* entry for LONG, below entry for SHORT; never for other types).
C10_Classification ==
    result # NoResult =>
        /\ result.outcome \in {"success", "failure"}
        /\ outcome_type \in {"target_hit", "stop_loss", "timeout"}
        /\ (outcome_type = "target_hit" => result.outcome = "success")
        /\ (outcome_type = "stop_loss" => result.outcome = "failure")
        /\ (outcome_type = "timeout" =>
              (result.outcome = "success" <=>
                 \/ pred_type = "LONG" /\ result.exit_price > entry_price
                 \/ pred_type = "SHORT" /\ result.exit_price < entry_price))

\* C10 witness: a LONG timeout with return exactly 0, labelled failure.
C10_Witness ==
    /\ result # NoResult
    /\ outcome_type = "timeout"
    /\ pred_type = "LONG"
    /\ result.exit_price = entry_price
    /\ result.outcome = "failure"

\* the engine's position type for a prediction type
Direction(ptype) == IF ptype = "LONG" THEN "long" ELSE "short"

\* C11: for a LONG or SHORT prediction the evaluator's pnl and return_pct are
\* the values the backtest engine's calculate_pnl and calculate_return give
\* for the same direction, entry and exit, whatever the size.
C11_SameFormulas ==
    (result # NoResult /\ pred_type \in {"LONG", "SHORT"}) =>
        /\ \A size \in {1, position_size} :
              result.pnl = calculate_pnl(Direction(pred_type), result.exit_price, entry_price, size)
        /\ FracEq(result.return_pct,
                  calculate_return(Direction(pred_type), result.exit_price, entry_price))

\* ================================================= PredictionTracker table
\* store_prediction, update_prediction_outcomes and the cache file of one
\* symbol.  A nullable column is <<>> (NULL) or <<v>>.
MaxPreds == 1
TrackerMaxLen == 2

Null == <<>>
Some(v) == <<v>>

TrackerTodays == {0, 2, 61}
TrackerIssued == {0, 1}
TrackerKinds == {[action |-> "BUY", type |-> "LONG", stop_loss |-> 95, take_profit |-> 110],
                 [action |-> "SELL", type |-> "SHORT", stop_loss |-> 110, take_profit |-> 95]}
TrackerBars == {[low |-> 100, high |-> 100, close |-> 100, gap |-> 1],
                [low |-> 100, high |-> 100, close |-> 100, gap |-> max_days],
                [low |-> 94, high |-> 100, close |-> 100, gap |-> 1],
                [low |-> 100, high |-> 111, close |-> 111, gap |-> 1]}

\* prediction_tracker.py:181-193  a PredictionRecord with its outcome fields at their default None
NewPrediction(d, kind) ==
    [symbol |-> "SYM", date_issued |-> d, action |-> kind.action, type |-> kind.type,
     entry_price |-> 100, stop_loss |-> kind.stop_loss, take_profit |-> kind.take_profit,
     outcome |-> Null, actual_exit_price |-> Null, actual_exit_date |-> Null,
     pnl |-> Null, return_pct |-> Null, days_held |-> Null]

\* prediction_tracker.py:314-362  the for loop from bar n on, as a function
RECURSIVE EvalFrom(_, _, _)
EvalFrom(points, n, p) ==
    IF n > Len(points) THEN NoResult
    ELSE LET day_data == points[n]
             days_held == day_data.date - p.date_issued
         IN  IF day_data.date <= p.date_issued THEN EvalFrom(points, n + 1, p)
             ELSE IF days_held > max_days
             THEN calculate_outcome(p.type, p.entry_price, day_data.close, days_held, day_data.date, "timeout")
             ELSE IF p.type = "LONG"
             THEN IF day_data.low <= p.stop_loss
                  THEN calculate_outcome(p.type, p.entry_price, p.stop_loss, days_held, day_data.date, "stop_loss")
                  ELSE IF day_data.high >= p.take_profit
                  THEN calculate_outcome(p.type, p.entry_price, p.take_profit, days_held, day_data.date, "target_hit")
                  ELSE EvalFrom(points, n + 1, p)
             ELSE IF p.type = "SHORT"
             THEN IF day_data.high >= p.stop_loss
                  THEN calculate_outcome(p.type, p.entry_price, p.stop_loss, days_held, day_data.date, "stop_loss")
                  ELSE IF day_data.low <= p.take_profit
                  THEN calculate_outcome(p.type, p.entry_price, p.take_profit, days_held, day_data.date, "target_hit")
                  ELSE EvalFrom(points, n + 1, p)
             ELSE EvalFrom(points, n + 1, p)

\* prediction_tracker.py:290-362  None when the file is missing or cannot be read
evaluate_prediction_outcome(file, p) ==
    IF file.status # "ok" THEN NoResult ELSE EvalFrom(file.data_points, 1, p)

\* variant: the pass selects every row old enough, evaluated or not
Selected_AnyOutcome(p, now) == p.date_issued <= now - 1

\* prediction_tracker.py:258-263  WHERE outcome IS NULL AND date_issued <= date('now', '-1 day')
Selected(p, now) == p.outcome = Null /\ p.date_issued <= now - 1

\* variant: a row whose evaluation gave nothing is written as a failure
Updated_NoneIsFailure(p, o) ==
    IF o # NoResult
    THEN [p EXCEPT !.outcome = Some(o.outcome), !.actual_exit_price = Some(o.exit_price),
                   !.actual_exit_date = Some(o.exit_date), !.pnl = Some(o.pnl),
                   !.return_pct = Some(o.return_pct), !.days_held = Some(o.days_held)]
    ELSE [p EXCEPT !.outcome = Some("failure")]

\* prediction_tracker.py:275-285  if outcome: UPDATE ... WHERE id = ?
Updated(p, o) ==
    IF o # NoResult
    THEN [p EXCEPT !.outcome = Some(o.outcome), !.actual_exit_price = Some(o.exit_price),
                   !.actual_exit_date = Some(o.exit_date), !.pnl = Some(o.pnl),
                   !.return_pct = Some(o.return_pct), !.days_held = Some(o.days_held)]
    ELSE p

InitTracker ==
    /\ BuyHoldOff
    /\ PerformanceOff
    /\ TriggersOff
    /\ MergeOff
    /\ BacktestOff
    /\ EvalOff
    /\ EnsembleOff
    /\ predictions = <<>>
    /\ cache = [status |-> "missing", data_points |-> <<>>]
    /\ today = 0
    /\ updated_count = 0
    /\ last_op = "init"

\* variant: a row counts as stored only if it equals the whole new record
Stored_WholeRecord(p) == \E id \in DOMAIN predictions : predictions[id] = p

\* prediction_tracker.py:212-216  the SELECT on (symbol, date_issued, action)
Stored(p) ==
    \E id \in DOMAIN predictions :
        /\ predictions[id].symbol = p.symbol
        /\ predictions[id].date_issued = p.date_issued
        /\ predictions[id].action = p.action

\* prediction_tracker.py:218-232  return if the key exists, else INSERT
store_prediction(p) == IF Stored(p) THEN predictions ELSE Append(predictions, p)

\* prediction_tracker.py:207-232  one recommendation file imported
StorePrediction ==
    /\ \E d \in TrackerIssued, kind \in TrackerKinds :
        LET p == NewPrediction(d, kind)
        IN  /\ d <= today
            /\ IF Stored(p) THEN TRUE ELSE Len(predictions) < MaxPreds
            /\ predictions' = store_prediction(p)
    /\ last_op' = "store"
    /\ UNCHANGED <<cache, today, updated_count>>
    /\ UNCHANGED NotTracker

\* the bar made of input b that follows the bars of series
NextBar(series, b) ==
    [date |-> (IF Len(series) = 0 THEN 0 ELSE series[Len(series)].date) + b.gap,
     low |-> b.low, high |-> b.high, close |-> b.close]

\* the cache file is removed, damaged or restored, gets one more bar, or has
\* its last bar revised; its bars are never dated after today
HistoryChange ==
    /\ \/ \E st \in {"ok", "missing", "unreadable"} : cache' = [cache EXCEPT !.status = st]
       \/ \E b \in TrackerBars :
            /\ Len(cache.data_points) < TrackerMaxLen
            /\ NextBar(cache.data_points, b).date <= today
            /\ cache' = [status |-> "ok",
                         data_points |-> Append(cache.data_points, NextBar(cache.data_points, b))]
       \/ \E b \in TrackerBars :
            /\ Len(cache.data_points) > 0
            /\ LET n == Len(cache.data_points)
                   old == cache.data_points[n]
               IN  cache' = [status |-> "ok",
                             data_points |-> [cache.data_points EXCEPT ![n] =
                                 [date |-> old.date, low |-> b.low, high |-> b.high, close |-> b.close]]]
    /\ cache' # cache
    /\ last_op' = "history"
    /\ UNCHANGED <<predictions, today, updated_count>>
    /\ UNCHANGED NotTracker

\* time passes
AdvanceDay ==
    /\ \E d \in TrackerTodays : d > today /\ today' = d
    /\ last_op' = "day"
    /\ UNCHANGED <<predictions, cache, updated_count>>
    /\ UNCHANGED NotTracker

\* prediction_tracker.py:251-288  one whole pass; a row's update depends on
\* that row and the cache file only, so the rows are updated at once
UpdatePass ==
    /\ predictions' = [id \in DOMAIN predictions |->
                         IF Selected(predictions[id], today)
                         THEN Updated(predictions[id], evaluate_prediction_outcome(cache, predictions[id]))
                         ELSE predictions[id]]
    /\ updated_count' = Cardinality({id \in DOMAIN predictions :
                                       /\ Selected(predictions[id], today)
                                       /\ evaluate_prediction_outcome(cache, predictions[id]) # NoResult})
    /\ last_op' = "update"
    /\ UNCHANGED <<cache, today>>
    /\ UNCHANGED NotTracker

NextTracker == StorePrediction \/ HistoryChange \/ AdvanceDay \/ UpdatePass

SpecTracker == InitTracker /\ [][NextTracker]_vars

OutcomeFields(p) ==
    <<p.outcome, p.actual_exit_price, p.actual_exit_date, p.pnl, p.return_pct, p.days_held>>

AllNull(p) == OutcomeFields(p) = <<Null, Null, Null, Null, Null, Null>>

\* C12: once a row's outcome is non-null, no step (an update pass after any
\* change of the price history included) changes any of its six outcome
\* fields.
C12_FilledOnce ==
    [][\A id \in DOMAIN predictions :
          predictions[id].outcome # Null =>
              /\ id \in DOMAIN predictions'
              /\ OutcomeFields(predictions'[id]) = OutcomeFields(predictions[id])]_vars

\* C12 witness: an update pass has just run over a filled row for which the
\* present price history would give another exit date than the stored one.
C12_Witness ==
    /\ last_op = "update"
    /\ \E id \in DOMAIN predictions :
        LET p == predictions[id]
            o == evaluate_prediction_outcome(cache, p)
        IN  /\ p.outcome # Null
            /\ p.date_issued <= today - 1
            /\ o # NoResult
            /\ Some(o.exit_date) # p.actual_exit_date

\* bar b touches the stop or the target of prediction p
TouchesBound(b, p) ==
    IF p.type = "LONG" THEN b.low <= p.stop_loss \/ b.high >= p.take_profit
    ELSE b.high >= p.stop_loss \/ b.low <= p.take_profit

\* the bars after date_issued end before a bound is touched and before the
\* holding period has elapsed
TooShort(file, p) ==
    \A n \in DOMAIN file.data_points :
        LET b == file.data_points[n]
        IN  b.date > p.date_issued =>
                /\ b.date - p.date_issued <= max_days
                /\ ~TouchesBound(b, p)

Unavailable(file, p) == file.status # "ok" \/ TooShort(file, p)

\* C13: when the history is missing, unreadable or too short for a selected
\* row, the evaluation gives no outcome, the pass leaves the row's six outcome
\* fields null and does not count it, and the row is still selected after
\* the pass.
C13_Deferred ==
    [][last_op' = "update" =>
          /\ \A id \in DOMAIN predictions :
                (Selected(predictions[id], today) /\ Unavailable(cache, predictions[id])) =>
                    /\ evaluate_prediction_outcome(cache, predictions[id]) = NoResult
                    /\ AllNull(predictions'[id])
                    /\ Selected(predictions'[id], today')
          /\ updated_count' <= Cardinality({id \in DOMAIN predictions :
                                              /\ Selected(predictions[id], today)
                                              /\ ~Unavailable(cache, predictions[id])})]_vars

\* C13 witness: a pass has just run over a selected row whose history has a
\* bar after date_issued but none that decides; the row is still all null.
C13_Witness ==
    /\ last_op = "update"
    /\ cache.status = "ok"
    /\ updated_count = 0
    /\ \E id \in DOMAIN predictions :
        /\ Selected(predictions[id], today)
        /\ AllNull(predictions[id])
        /\ TooShort(cache, predictions[id])
        /\ \E n \in DOMAIN cache.data_points :
              cache.data_points[n].date > predictions[id].date_issued

\* ------------------------------------------------ imports and re-imports
\* import_historical_predictions and update_prediction_outcomes in any
\* order over a price history that does not change.
MaxImported == 2

\* the recommendation files: those above, and a BUY with other levels
ImportKinds ==
    TrackerKinds \cup {[action |-> "BUY", type |-> "LONG", stop_loss |-> 94, take_profit |-> 111]}

ImportCaches ==
    {[status |-> "missing", data_points |-> <<>>]} \cup
    {[status |-> "ok", data_points |-> <<NextBar(<<>>, b)>>] : b \in TrackerBars}

InitImport ==
    /\ BuyHoldOff
    /\ PerformanceOff
    /\ TriggersOff
    /\ MergeOff
    /\ BacktestOff
    /\ EvalOff
    /\ EnsembleOff
    /\ predictions = <<>>
    /\ cache \in ImportCaches
    /\ today = 0
    /\ updated_count = 0
    /\ last_op = "init"

\* prediction_tracker.py:156-205  one recommendation file of the results
\* directory imported
ImportPrediction ==
    /\ \E d \in TrackerIssued, kind \in ImportKinds :
        LET p == NewPrediction(d, kind)
        IN  /\ d <= today
            /\ IF Stored(p) THEN TRUE ELSE Len(predictions) < MaxImported
            /\ predictions' = store_prediction(p)
    /\ last_op' = "store"
    /\ UNCHANGED <<cache, today, updated_count>>
    /\ UNCHANGED NotTracker

NextImport == ImportPrediction \/ AdvanceDay \/ UpdatePass

SpecImport == InitImport /\ [][NextImport]_vars

Key(p) == <<p.symbol, p.date_issued, p.action>>

\* C29: storing a prediction whose key (symbol, date_issued, action) exists
\* leaves the table unchanged: a store either changes nothing or appends one
\* row with a new key and null outcome fields, so no two rows share a key and
\* a re-import leaves every filled outcome field as it was.
C29_StoreIdempotent ==
    /\ [](\A a, b \in DOMAIN predictions : Key(predictions[a]) = Key(predictions[b]) => a = b)
    /\ [][last_op' = "store" =>
            \/ predictions' = predictions
            \/ /\ Len(predictions') = Len(predictions) + 1
               /\ SubSeq(predictions', 1, Len(predictions)) = predictions
               /\ AllNull(predictions'[Len(predictions')])
               /\ \A id \in DOMAIN predictions :
                     Key(predictions[id]) # Key(predictions'[Len(predictions')])]_vars

\* C29 witness: a store has just run and appended nothing, the table holding
\* two rows of the same symbol and date, the last one with its outcome filled.
C29_Witness ==
    /\ last_op = "store"
    /\ Len(predictions) = 2
    /\ predictions[1].date_issued = predictions[2].date_issued
    /\ predictions[1].outcome # Null
    /\ predictions[2].outcome # Null

\* ======================================================= EnsembleStrategy
\* _evaluate_strategy_performance and _update_weights of one ensemble
\* instance.  Weights are integers in units of 1/10000, performance scores
\* integers in tenths; a quotient is rounded down to the unit.
MaxEvals == 2
MaxUpdates == 2
WeightCap == 100000

evaluation_window == 20
learning_rate_pct == 10
weight_floor == 1000

\* the scores an evaluation can append for each component, in tenths
ScoresOf == [c \in Components |->
               IF c = "A" THEN {0, 60} ELSE IF c = "B" THEN {-1, 60} ELSE {-1}]

\* what one evaluation yields per component: <<>> when the component closed
\* no trade in the window (ensemble.py:72 'if returns'), else <<score>>
EvalChoices == {ch \in [Components -> {<<>>} \cup {<<x>> : x \in {-1, 0, 60}}] :
                  \A c \in Components : ch[c] = <<>> \/ ch[c][1] \in ScoresOf[c]}

Max(a, b) == IF a >= b THEN a ELSE b

RECURSIVE SumOver(_, _)
SumOver(f, S) ==
    IF S = {} THEN 0
    ELSE LET c == CHOOSE x \in S : TRUE IN f[c] + SumOver(f, S \ {c})

\* ensemble.py:95  np.exp(i/len(history)), in thousandths (series to the 6th power)
ExpMilli(idx, n) ==
    LET t1 == (1000 * idx) \div n
        t2 == (t1 * idx) \div (2 * n)
        t3 == (t2 * idx) \div (3 * n)
        t4 == (t3 * idx) \div (4 * n)
        t5 == (t4 * idx) \div (5 * n)
        t6 == (t5 * idx) \div (6 * n)
    IN  1000 + t1 + t2 + t3 + t4 + t5 + t6

RECURSIVE ExpSums(_, _)
ExpSums(history, j) ==
    IF j = 0 THEN [num |-> 0, den |-> 0]
    ELSE LET rest == ExpSums(history, j - 1)
             w == ExpMilli(j - 1, Len(history))
         IN  [num |-> rest.num + w * history[j], den |-> rest.den + w]

\* ensemble.py:95-96  np.average(history, weights=weights), in units of 1/10000
WeightedScore(history) ==
    LET sums == ExpSums(history, Len(history))
    IN  (sums.num * 1000) \div sums.den

\* ensemble.py:90-97  new_weights[strategy_name]
NewWeight(c) ==
    IF performance_history[c] = <<>> THEN strategy_weights[c]
    ELSE Max(weight_floor, WeightedScore(performance_history[c]))

\* ensemble.py:98  total_score: only components with a history are added
TotalScore ==
    SumOver([c \in Components |-> IF performance_history[c] = <<>> THEN 0 ELSE NewWeight(c)],
            Components)

\* ensemble.py:103  new_weights[strategy_name] / total_score, in units of 1/10000
TargetWeight(c) == (NewWeight(c) * 10000) \div TotalScore

SignalsOff ==
    /\ component_signals = [c \in Components |-> [signal |-> "hold", confidence |-> 0]]
    /\ enough_points = FALSE
    /\ combined = NoCombined

\* ensemble.py:8-18  a new instance, as main.py:133 load_strategies builds it
InitWeights ==
    /\ BuyHoldOff
    /\ PerformanceOff
    /\ TriggersOff
    /\ MergeOff
    /\ BacktestOff
    /\ EvalOff
    /\ TrackerOff
    /\ SignalsOff
    /\ strategy_weights = [c \in Components |-> InitialWeight]
    /\ performance_history = [c \in Components |-> <<>>]
    /\ processing = "X"
    /\ evals = 0
    /\ updates = 0
    /\ prev_weights = [c \in Components |-> InitialWeight]
    /\ ens_op = "init"

\* variant: a full history drops the score just appended
Pushed_DropNewest(history, score) ==
    LET appended == Append(history, score)
    IN  IF Len(appended) > evaluation_window
        THEN SubSeq(appended, 1, Len(appended) - 1) ELSE appended

\* ensemble.py:78-81  append, then pop(0) when longer than the window
Pushed(history, score) ==
    LET appended == Append(history, score)
    IN  IF Len(appended) > evaluation_window THEN Tail(appended) ELSE appended

\* ensemble.py:32-81  _evaluate_strategy_performance(symbol, date)
evaluate_strategy_performance(symbol, choice) ==
    /\ performance_history' = [c \in Components |->
                                 IF choice[c] = <<>> THEN performance_history[c]
                                 ELSE Pushed(performance_history[c], choice[c][1])]
    /\ processing' = symbol
    /\ evals' = evals + 1
    /\ prev_weights' = strategy_weights
    /\ ens_op' = "evaluate"
    /\ UNCHANGED <<strategy_weights, updates>>
    /\ UNCHANGED svars
    /\ UNCHANGED NotEnsemble

\* variant: the weights step away from their targets
update_weights_AwayFromTarget(symbol) ==
    /\ \A c \in Components : strategy_weights[c] <= WeightCap
    /\ strategy_weights' =
         IF TotalScore > 0
         THEN [c \in Components |->
                 strategy_weights[c]
                   - (learning_rate_pct * (TargetWeight(c) - strategy_weights[c])) \div 100]
         ELSE strategy_weights
    /\ processing' = symbol
    /\ updates' = updates + 1
    /\ prev_weights' = strategy_weights
    /\ ens_op' = "update"
    /\ UNCHANGED <<performance_history, evals>>
    /\ UNCHANGED svars
    /\ UNCHANGED NotEnsemble

\* ensemble.py:83-107  _update_weights(), called while symbol is processed
update_weights(symbol) ==
    /\ \A c \in Components : strategy_weights[c] <= WeightCap
    /\ strategy_weights' =
         IF TotalScore > 0
         THEN [c \in Components |->
                 strategy_weights[c]
                   + (learning_rate_pct * (TargetWeight(c) - strategy_weights[c])) \div 100]
         ELSE strategy_weights
    /\ processing' = symbol
    /\ updates' = updates + 1
    /\ prev_weights' = strategy_weights
    /\ ens_op' = "update"
    /\ UNCHANGED <<performance_history, evals>>
    /\ UNCHANGED svars
    /\ UNCHANGED NotEnsemble

Evaluate ==
    /\ evals < MaxEvals
    /\ \E symbol \in Symbols, choice \in EvalChoices : evaluate_strategy_performance(symbol, choice)

Update ==
    /\ updates < MaxUpdates
    /\ \E symbol \in Symbols : update_weights(symbol)

NextWeights == Evaluate \/ Update

SpecWeights == InitWeights /\ [][NextWeights]_vars

\* C14: a weight update leaves the weight of every component with an empty
\* performance history exactly as it was, whatever the other histories are.
C14_EmptyHistoryKeepsWeight ==
    [][ens_op' = "update" =>
          \A c \in Components :
              performance_history[c] = <<>> => strategy_weights'[c] = strategy_weights[c]]_vars

\* ensemble.py:16-17, main.py:133  the weights used to combine signals for a
\* symbol: those of the one instance, keyed by strategy name only
WeightsFor(symbol) == strategy_weights

\* C19: an evaluation or weight update made while one symbol is processed
\* leaves the weights used for every other symbol unchanged.
C19_NotSharedAcrossSymbols ==
    [][\A other \in Symbols \ {processing'} : WeightsFor(other)' = WeightsFor(other)]_vars

\* A was scored in every evaluation so far, each time strictly above B and C
Dominates ==
    /\ evals > 0
    /\ \A c \in Components : Len(performance_history[c]) = evals
    /\ \A j \in 1..evals :
          /\ performance_history["A"][j] > performance_history["B"][j]
          /\ performance_history["A"][j] > performance_history["C"][j]

\* c's share of the total weight is strictly larger in new than in old
ShareIncreased(old, new, c) ==
    new[c] * SumOver(old, Components) > old[c] * SumOver(new, Components)

\* c's share of the floored scores is strictly larger than its share of the weights
TargetShareAbove(c) ==
    NewWeight(c) * SumOver(strategy_weights, Components) > strategy_weights[c] * TotalScore

MaxFloorUpdates == 25

FloorEvaluate ==
    /\ evals = 0
    /\ \E symbol \in Symbols, choice \in EvalChoices : evaluate_strategy_performance(symbol, choice)

FloorUpdate ==
    /\ updates < MaxFloorUpdates
    /\ \E symbol \in Symbols : update_weights(symbol)

NextFloor == FloorEvaluate \/ FloorUpdate

SpecFloor == InitWeights /\ [][NextFloor]_vars

\* C15: no component's weight is ever below the 0.1 floor.
C15_WeightAtLeastFloor ==
    \A c \in Components : strategy_weights[c] >= weight_floor

\* ------------------------------------------ evaluations past the window
\* The first evaluation_window - 1 evaluations score every component with a
\* fixed pattern; the HistoryFree evaluations after them are unconstrained.
HistoryFree == 2

PatternScore(c, n) ==
    IF c = "A" THEN (IF n % 2 = 0 THEN 0 ELSE 60)
    ELSE IF c = "B" THEN (IF n % 3 = 0 THEN 60 ELSE -1)
    ELSE -1

HistoryEvaluate ==
    /\ evals < evaluation_window - 1 + HistoryFree
    /\ \E symbol \in Symbols, choice \in EvalChoices :
        /\ evals < evaluation_window - 1 =>
              \A c \in Components : choice[c] = <<PatternScore(c, evals + 1)>>
        /\ evaluate_strategy_performance(symbol, choice)

NextHistory == HistoryEvaluate

SpecHistory == InitWeights /\ [][NextHistory]_vars

\* C16: no performance history is ever longer than evaluation_window, and an
\* evaluation that appends a score to a history leaves the old scores in
\* order followed by the new one, without the oldest score when the history
\* was full.
C16_RollingWindow ==
    /\ [](\A c \in Components : Len(performance_history[c]) <= evaluation_window)
    /\ [][\A symbol \in Symbols, choice \in EvalChoices :
            evaluate_strategy_performance(symbol, choice) =>
                \A c \in Components :
                    performance_history'[c] =
                        IF choice[c] = <<>> THEN performance_history[c]
                        ELSE IF Len(performance_history[c]) = evaluation_window
                        THEN Append(Tail(performance_history[c]), choice[c][1])
                        ELSE Append(performance_history[c], choice[c][1])]_vars

\* C16 witness: after more evaluations than the window holds, A's history is
\* full and starts with the second score A ever got, not the first.
C16_Witness ==
    /\ ens_op = "evaluate"
    /\ evals > evaluation_window
    /\ Len(performance_history["A"]) = evaluation_window
    /\ performance_history["A"][1] = PatternScore("A", 2)
    /\ performance_history["A"][1] # PatternScore("A", 1)
    /\ performance_history["A"][2] = PatternScore("A", 3)

\* ================================== EnsembleStrategy.generate_signals
\* Confidences are integers in tenths; a combined confidence is an exact
\* fraction.
min_confidence_threshold == 3

Hold == [signal |-> "hold", confidence |-> 0]

\* what a component's generate_signals can return: hold, or a signal with
\* confidence 0.0, 0.2 or 0.6
ComponentOutputs ==
    {Hold} \cup [signal : {"long", "short", "exit"}, confidence : {0, 2, 6}]

\* ensemble.py:118-125  the non-hold signals, confidence times strategy weight
Weighted(sigs, c) ==
    IF sigs[c].signal = "hold" THEN 0 ELSE sigs[c].confidence * strategy_weights[c]

\* ensemble.py:131-137  signal_counts[signal_type] before normalization
Bucket(sigs, signal_type) ==
    SumOver([c \in Components |-> IF sigs[c].signal = signal_type THEN Weighted(sigs, c) ELSE 0],
            Components)

\* ensemble.py:132-137  total_confidence
TotalConfidence(sigs) == SumOver([c \in Components |-> Weighted(sigs, c)], Components)

\* variant: min instead of max, the first smallest bucket
Dominant_Smallest(sigs) ==
    LET long == Bucket(sigs, "long")
        short == Bucket(sigs, "short")
        exit == Bucket(sigs, "exit")
    IN  IF long <= short /\ long <= exit THEN "long"
        ELSE IF short <= exit THEN "short" ELSE "exit"

\* ensemble.py:148  max(signal_counts.items(), key=...): the first largest
\* bucket in the dictionary's order long, short, exit
Dominant(sigs) ==
    LET long == Bucket(sigs, "long")
        short == Bucket(sigs, "short")
        exit == Bucket(sigs, "exit")
    IN  IF long >= short /\ long >= exit THEN "long"
        ELSE IF short >= exit THEN "short" ELSE "exit"

HoldResult(details) == [signal |-> "hold", confidence |-> Frac(0, 1), details |-> details]

\* ensemble.py:109-154
generate_signals(sigs, enough) ==
    IF ~enough THEN HoldResult("Insufficient data")
    ELSE IF \A c \in Components : sigs[c].signal = "hold"
    THEN HoldResult("No signals from component strategies")
    ELSE IF TotalConfidence(sigs) = 0 THEN HoldResult("No confident signals")
    ELSE IF 10 * Bucket(sigs, Dominant(sigs)) > min_confidence_threshold * TotalConfidence(sigs)
    THEN [signal |-> Dominant(sigs),
          confidence |-> Frac(Bucket(sigs, Dominant(sigs)), TotalConfidence(sigs)),
          details |-> "joined details"]
    ELSE HoldResult("No clear consensus")

InitSignals ==
    /\ BuyHoldOff
    /\ PerformanceOff
    /\ TriggersOff
    /\ MergeOff
    /\ BacktestOff
    /\ EvalOff
    /\ TrackerOff
    /\ strategy_weights = [c \in Components |-> InitialWeight]
    /\ performance_history = [c \in Components |-> <<>>]
    /\ processing = "X"
    /\ evals = 0
    /\ updates = 0
    /\ prev_weights = [c \in Components |-> InitialWeight]
    /\ ens_op = "init"
    /\ component_signals = [c \in Components |-> Hold]
    /\ enough_points = FALSE
    /\ combined = NoCombined

\* one call of generate_signals; the components' answers are its inputs
Combine ==
    /\ combined = NoCombined
    /\ \E sigs \in [Components -> ComponentOutputs], enough \in BOOLEAN :
        /\ component_signals' = sigs
        /\ enough_points' = enough
        /\ combined' = generate_signals(sigs, enough)
    /\ UNCHANGED wvars
    /\ UNCHANGED NotEnsemble

NextSignals == Combine

SpecSignals == InitSignals /\ [][NextSignals]_vars

\* the component answers with every non-hold signal of confidence below the
\* threshold replaced by hold
WithoutLowConfidence(sigs) ==
    [c \in Components |->
        IF sigs[c].signal # "hold" /\ sigs[c].confidence < min_confidence_threshold
        THEN Hold ELSE sigs[c]]

\* C17: the combined signal and confidence are those the call would give if
\* every component signal with confidence below min_confidence_threshold had
\* been hold.
C17_LowConfidenceDiscarded ==
    combined # NoCombined =>
        LET expected == generate_signals(WithoutLowConfidence(component_signals), enough_points)
        IN  /\ combined.signal = expected.signal
            /\ FracEq(combined.confidence, expected.confidence)

\* C18: when the exit bucket equals the largest bucket, the combined signal
\* is exit.
C18_TiesPreferExit ==
    (/\ combined # NoCombined
     /\ enough_points
     /\ TotalConfidence(component_signals) > 0
     /\ Bucket(component_signals, "exit") >= Bucket(component_signals, "long")
     /\ Bucket(component_signals, "exit") >= Bucket(component_signals, "short"))
        => combined.signal = "exit"

\* C27: with sufficient history and at least one component giving a non-hold
\* signal of positive weighted confidence, the combined signal is not hold:
\* the largest of the three normalized buckets is at least 1/3, above 0.3.
C27_NeverHoldWithSignal ==
    (/\ combined # NoCombined
     /\ enough_points
     /\ \E c \in Components : Weighted(component_signals, c) > 0)
        => /\ combined.signal # "hold"
           /\ 3 * combined.confidence.num >= combined.confidence.den

\* the three buckets are equal, each exactly 1/3
C27_Witness ==
    /\ combined # NoCombined
    /\ enough_points
    /\ Bucket(component_signals, "long") > 0
    /\ Bucket(component_signals, "long") = Bucket(component_signals, "short")
    /\ Bucket(component_signals, "long") = Bucket(component_signals, "exit")
    /\ combined.signal # "hold"

\* ============================================= EnsembleStrategy.backtest
\* Each component strategy is backtested over the same bars with the engine
\* above; the trades of all of them are concatenated and sorted by
\* entry_date.
BacktestComponents == <<"A", "B">>

\* the series the components are run on: every close is 100 or 105
EnsembleSeries ==
    {s \in AllSeries : \A n \in DOMAIN s : s[n].close \in {100, 105}}

InitEnsembleBacktest ==
    /\ BuyHoldOff
    /\ PerformanceOff
    /\ TriggersOff
    /\ data_points \in EnsembleSeries
    /\ min_points \in 0..MaxMinPoints
    /\ i = 0
    /\ signal = "hold"
    /\ position = NoPosition
    /\ trades = <<>>
    /\ opened = 0
    /\ pc = "start"
    /\ component = 1
    /\ strategy_results = <<>>
    /\ all_trades = <<>>
    /\ EvalOff
    /\ TrackerOff
    /\ EnsembleOff

\* ensemble.py:243-244  strategy_results[strategy.name] = strategy.backtest(...),
\* then the next strategy starts on the same bars
ComponentDone ==
    /\ pc = "done"
    /\ component <= Len(BacktestComponents)
    /\ strategy_results' = Append(strategy_results, trades)
    /\ component' = component + 1
    /\ IF component < Len(BacktestComponents)
       THEN /\ pc' = "start"
            /\ i' = 0
            /\ signal' = "hold"
            /\ position' = NoPosition
            /\ trades' = <<>>
            /\ opened' = 0
       ELSE UNCHANGED <<pc, i, signal, position, trades, opened>>
    /\ UNCHANGED <<data_points, min_points, all_trades>>
    /\ UNCHANGED NotMerge

RECURSIVE Concat(_, _)
Concat(lists, n) == IF n = 0 THEN <<>> ELSE Concat(lists, n - 1) \o lists[n]

\* list.sort(key=entry_date) is stable: t goes after the trades that do not
\* enter later than it
InsertByEntry(sorted, t) ==
    LET before == {n \in 0..Len(sorted) : \A m \in 1..n : sorted[m].entry_date <= t.entry_date}
        at == CHOOSE n \in before : \A m \in before : m <= n
    IN  SubSeq(sorted, 1, at) \o <<t>> \o SubSeq(sorted, at + 1, Len(sorted))

RECURSIVE SortByEntry(_, _)
SortByEntry(list, n) ==
    IF n = 0 THEN <<>> ELSE InsertByEntry(SortByEntry(list, n - 1), list[n])

\* ensemble.py:247-259  all_trades.extend(...) for every strategy, then sort
MergeTrades ==
    /\ pc = "done"
    /\ component = Len(BacktestComponents) + 1
    /\ LET combined_trades == Concat(strategy_results, Len(strategy_results))
       IN  all_trades' = SortByEntry(combined_trades, Len(combined_trades))
    /\ pc' = "merged"
    /\ UNCHANGED <<data_points, min_points, i, signal, position, trades, opened,
                   component, strategy_results>>
    /\ UNCHANGED NotMerge

NextEnsembleBacktest ==
    InsufficientData \/ BeginLoop \/ LoopBody \/ CloseAtEnd \/ ComponentDone \/ MergeTrades

SpecEnsembleBacktest == InitEnsembleBacktest /\ [][NextEnsembleBacktest]_vars

\* C21: in the trades the ensemble's backtest returns, each trade enters no
\* earlier than the trade before it exits.
C21_EnsembleSinglePosition ==
    pc = "merged" =>
        \A n \in 1..(Len(all_trades) - 1) :
            all_trades[n + 1].entry_date >= all_trades[n].exit_date

\* ======================================= PredictionTracker trading triggers
\* generate_trading_triggers with calculate_strategy_performance,
\* analyze_prediction_progression and store_triggers.  A confidence column is
\* an integer in tenths; rates and the trigger confidence are exact fractions.
MaxRecent == 2
MaxCycles == 2

FracAdd(f, g) == Frac(f.num * g.den + g.num * f.den, f.den * g.den)

\* f >= n/d, for positive denominators
FracAtLeast(f, n, d) == f.num * d >= n * f.den

SeqRange(s) == {s[n] : n \in DOMAIN s}

\* a resolved prediction of an earlier month, backed by strategy S1
HistRow(success) ==
    [symbol |-> "HIST", date_issued |-> 0, action |-> "BUY", confidence |-> 5,
     strategies |-> <<"S1">>, stop_loss |-> 95, take_profit |-> 110,
     outcome |-> Some(IF success THEN "success" ELSE "failure"),
     return_pct |-> Some(IF success THEN Frac(10, 100) ELSE Frac(-5, 100))]

\* an open prediction for SYM, the j-th of the last days
RecentRow(j, in) ==
    [symbol |-> "SYM", date_issued |-> 36 + j, action |-> in.action, confidence |-> in.confidence,
     strategies |-> in.strategies, stop_loss |-> 95, take_profit |-> 110,
     outcome |-> Null, return_pct |-> Null]

RecentInputs ==
    [action : {"BUY", "SELL"}, confidence : {5, 9}, strategies : {<<"S1">>, <<"S2", "S1">>}]

HistShapes == {[total |-> 4, successful |-> 4], [total |-> 5, successful |-> 3],
               [total |-> 5, successful |-> 4], [total |-> 5, successful |-> 5]}

TriggerDays == {40, 41}

\* the cache file as get_current_price reads it: a bare list of bars has a
\* last close, the nested {'data_points': [...]} form raises and gives None
PriceFiles == {[status |-> "missing", data_points |-> <<>>],
               [status |-> "nested", data_points |-> <<[date |-> 39, low |-> 100, high |-> 100, close |-> 100]>>],
               [status |-> "list", data_points |-> <<[date |-> 39, low |-> 100, high |-> 100, close |-> 100]>>]}

NoPrice == 0

\* prediction_tracker.py:234-249
get_current_price(file) ==
    IF file.status = "list" /\ Len(file.data_points) > 0
    THEN file.data_points[Len(file.data_points)].close
    ELSE NoPrice

\* prediction_tracker.py:399-421  the resolved rows that name strategy s
StrategyData(table, s) ==
    {n \in DOMAIN table : table[n].outcome # Null /\ s \in SeqRange(table[n].strategies)}

\* prediction_tracker.py:424-478  the metrics the triggers use
calculate_strategy_performance(table) ==
    LET names == UNION {SeqRange(table[n].strategies) : n \in {m \in DOMAIN table : table[m].outcome # Null}}
    IN  [s \in names |->
           LET data == StrategyData(table, s)
               total == Cardinality(data)
               successful == Cardinality({n \in data : table[n].outcome = Some("success")})
               wins == Cardinality({n \in data : FracSign(table[n].return_pct[1]) > 0})
           IN  [total_predictions |-> total,
                successful_predictions |-> successful,
                failed_predictions |-> total - successful,
                accuracy_rate |-> Frac(successful, total),
                win_rate |-> Frac(wins, total)]]

\* variant: accuracy alone makes a strategy reliable
Reliable_AnySampleSize(perf, s) ==
    /\ s \in DOMAIN perf
    /\ 10 * perf[s].accuracy_rate.num > 6 * perf[s].accuracy_rate.den

\* prediction_tracker.py:540-544  accuracy_rate > 0.6 and total_predictions >= 5
Reliable(perf, s) ==
    /\ s \in DOMAIN perf
    /\ 10 * perf[s].accuracy_rate.num > 6 * perf[s].accuracy_rate.den
    /\ perf[s].total_predictions >= 5

\* prediction_tracker.py:488-493  WHERE date_issued >= date('now', '-30 days'), one symbol's rows
RecentOf(table, symbol, now) ==
    {n \in DOMAIN table : table[n].symbol = symbol /\ table[n].date_issued >= now - 30}

\* position of row n in ORDER BY date_issued DESC among the rows S
Rank(table, S, n) == Cardinality({m \in S : table[m].date_issued > table[n].date_issued})

RECURSIVE ReliableOf(_, _, _)
ReliableOf(perf, strategies, j) ==
    IF j = 0 THEN <<>>
    ELSE IF Reliable(perf, strategies[j])
    THEN Append(ReliableOf(perf, strategies, j - 1), strategies[j])
    ELSE ReliableOf(perf, strategies, j - 1)

\* prediction_tracker.py:537-544  backing_strength += accuracy_rate * win_rate
RECURSIVE BackingStrength(_, _, _)
BackingStrength(perf, strategies, j) ==
    IF j = 0 THEN Frac(0, 1)
    ELSE IF Reliable(perf, strategies[j])
    THEN FracAdd(BackingStrength(perf, strategies, j - 1),
                 Frac(perf[strategies[j]].accuracy_rate.num * perf[strategies[j]].win_rate.num,
                      perf[strategies[j]].accuracy_rate.den * perf[strategies[j]].win_rate.den))
    ELSE BackingStrength(perf, strategies, j - 1)

NoTrigger == [symbol |-> "none"]

\* prediction_tracker.py:518-595
analyze_prediction_progression(table, symbol, rows, perf, current_price, now) ==
    IF current_price = NoPrice THEN NoTrigger
    ELSE LET latest == table[CHOOSE n \in rows : Rank(table, rows, n) = 0]
             reliable_strategies == ReliableOf(perf, latest.strategies, Len(latest.strategies))
             backing_strength == BackingStrength(perf, latest.strategies, Len(latest.strategies))
             recent_actions == {n \in rows : Rank(table, rows, n) < 5}
             action_consistency ==
                 Frac(Cardinality({n \in recent_actions : table[n].action = latest.action}),
                      Cardinality(recent_actions))
             total == FracAdd(FracAdd(Frac(latest.confidence, 10), backing_strength), action_consistency)
             trigger_confidence == Frac(total.num, total.den * 3)
         IN  IF FracAtLeast(trigger_confidence, 7, 10) /\ reliable_strategies # <<>>
             THEN [symbol |-> symbol,
                   action |-> latest.action,
                   confidence |-> trigger_confidence,
                   strategy_backing |-> reliable_strategies,
                   entry_price |-> current_price,
                   stop_loss |-> latest.stop_loss,
                   take_profit |-> latest.take_profit,
                   risk_level |-> IF FracAtLeast(trigger_confidence, 85, 100) THEN "LOW"
                                  ELSE IF FracAtLeast(trigger_confidence, 75, 100) THEN "MEDIUM"
                                  ELSE "HIGH"]
             ELSE NoTrigger

\* the symbols of the table in the query's ORDER BY symbol
TriggerSymbols == <<"HIST", "SYM">>

\* prediction_tracker.py:501-511  the loop over symbol_data
RECURSIVE TriggersFor(_, _, _, _, _)
TriggersFor(table, perf, file, now, j) ==
    IF j = 0 THEN <<>>
    ELSE LET symbol == TriggerSymbols[j]
             rows == RecentOf(table, symbol, now)
             earlier == TriggersFor(table, perf, file, now, j - 1)
         IN  IF Cardinality(rows) < 2 THEN earlier
             ELSE LET trigger == analyze_prediction_progression(table, symbol, rows, perf,
                                                                get_current_price(file), now)
                  IN  IF trigger # NoTrigger THEN Append(earlier, trigger) ELSE earlier

\* prediction_tracker.py:603  UPDATE ... SET is_active = 0 WHERE date_created < today
Deactivated(rows, now) ==
    [n \in DOMAIN rows |->
        IF rows[n].date_created < now THEN [rows[n] EXCEPT !.is_active = FALSE] ELSE rows[n]]

\* prediction_tracker.py:606-618  INSERT: is_active defaults to 1
Inserted(list, now) ==
    [n \in DOMAIN list |->
        [symbol |-> list[n].symbol, action |-> list[n].action, confidence |-> list[n].confidence,
         strategy_backing |-> list[n].strategy_backing, entry_price |-> list[n].entry_price,
         stop_loss |-> list[n].stop_loss, take_profit |-> list[n].take_profit,
         risk_level |-> list[n].risk_level, date_created |-> now, is_active |-> TRUE]]

InitTriggers ==
    /\ BuyHoldOff
    /\ PerformanceOff
    /\ BacktestOff
    /\ EvalOff
    /\ EnsembleOff
    /\ MergeOff
    /\ \E shape \in HistShapes, n \in 0..MaxRecent : \E g \in [1..n -> RecentInputs] :
          predictions = [j \in 1..shape.total |-> HistRow(j <= shape.successful)]
                          \o [j \in 1..n |-> RecentRow(j, g[j])]
    /\ cache \in PriceFiles
    /\ today = 40
    /\ updated_count = 0
    /\ last_op = "init"
    /\ triggers = <<>>
    /\ emitted = <<>>
    /\ cycles = 0

\* prediction_tracker.py:480-516  one generation cycle, store_triggers included
GenerateTriggers ==
    /\ cycles < MaxCycles
    /\ LET list == TriggersFor(predictions, calculate_strategy_performance(predictions),
                               cache, today, Len(TriggerSymbols))
       IN  /\ emitted' = list
           /\ triggers' = Deactivated(triggers, today) \o Inserted(list, today)
    /\ cycles' = cycles + 1
    /\ last_op' = "triggers"
    /\ UNCHANGED <<predictions, cache, today, updated_count>>
    /\ UNCHANGED NotTriggers

\* the calendar day changes between cycles
TriggerNextDay ==
    /\ \E d \in TriggerDays : d > today /\ today' = d
    /\ last_op' = "day"
    /\ UNCHANGED <<predictions, cache, updated_count>>
    /\ UNCHANGED gvars
    /\ UNCHANGED NotTriggers

NextTriggers == GenerateTriggers \/ TriggerNextDay

SpecTriggers == InitTriggers /\ [][NextTriggers]_vars

\* strategy s has at least 5 resolved predictions and more than 60% of them
\* are successes
IsReliable(s) ==
    LET backed == {n \in DOMAIN predictions :
                     predictions[n].outcome # Null /\ s \in SeqRange(predictions[n].strategies)}
        successes == {n \in backed : predictions[n].outcome = Some("success")}
    IN  /\ Cardinality(backed) >= 5
        /\ 10 * Cardinality(successes) > 6 * Cardinality(backed)

\* the predictions of t's symbol issued in the 30 days before t was created
TrailingRows(t) ==
    {n \in DOMAIN predictions :
        predictions[n].symbol = t.symbol /\ predictions[n].date_issued >= t.date_created - 30}

\* the most recent of them
MostRecent(t) ==
    {n \in TrailingRows(t) :
        \A m \in TrailingRows(t) : predictions[m].date_issued <= predictions[n].date_issued}

\* C22: every stored trigger has at least 2 predictions of its symbol in the
\* trailing 30 days, confidence >= 0.7, a non-empty strategy_backing made only
\* of reliable strategies that back the most recent prediction, and that
\* prediction's action.
C22_TriggerConditions ==
    \A j \in DOMAIN triggers :
        LET t == triggers[j]
        IN  /\ Cardinality(TrailingRows(t)) >= 2
            /\ 10 * t.confidence.num >= 7 * t.confidence.den
            /\ t.strategy_backing # <<>>
            /\ \A s \in SeqRange(t.strategy_backing) : IsReliable(s)
            /\ \E n \in MostRecent(t) :
                  /\ t.action = predictions[n].action
                  /\ SeqRange(t.strategy_backing) \subseteq SeqRange(predictions[n].strategies)

\* C22 witness: a trigger was emitted for a latest prediction of confidence
\* 0.5 backed by S2 and S1, and its strategy_backing is S1 alone.
C22_Witness ==
    /\ emitted # <<>>
    /\ \E j \in DOMAIN triggers :
          /\ triggers[j].strategy_backing = <<"S1">>
          /\ \E n \in MostRecent(triggers[j]) :
                /\ predictions[n].strategies = <<"S2", "S1">>
                /\ predictions[n].confidence = 5

\* C23: no two active triggers have the same symbol, a cycle leaves every
\* trigger stored before it inactive, and no step changes a stored trigger
\* except for is_active.
C23_Superseded ==
    /\ [](\A a \in DOMAIN triggers : \A b \in DOMAIN triggers :
             (a < b /\ triggers[a].is_active /\ triggers[b].is_active)
                 => triggers[a].symbol # triggers[b].symbol)
    /\ [][cycles' = cycles + 1 => \A n \in DOMAIN triggers : ~triggers'[n].is_active]_vars
    /\ [][\A n \in DOMAIN triggers :
             /\ n \in DOMAIN triggers'
             /\ [triggers'[n] EXCEPT !.is_active = TRUE] = [triggers[n] EXCEPT !.is_active = TRUE]]_vars

\* ============================= the ensemble's performance evaluation
PerfMaxLen == 4
PerfCloses == {100, 200}

\* the evaluation window: evaluation_points, one bar per day
PerfSeriesOfLen(n) ==
    {[a \in 1..n |-> [date |-> a, close |-> c[a]]] : c \in [1..n -> PerfCloses]}

\* the backtest engine over the window from its first bar, then the
\* evaluation over the same bars with the same signal on each bar
InitPerformance ==
    /\ BuyHoldOff
    /\ EvalOff
    /\ TrackerOff
    /\ EnsembleOff
    /\ MergeOff
    /\ TriggersOff
    /\ \E n \in 0..PerfMaxLen :
        /\ data_points \in PerfSeriesOfLen(n)
        /\ bar_signals \in [1..n -> SignalTypes]
    /\ min_points = 0
    /\ i = 0
    /\ signal = "hold"
    /\ position = NoPosition
    /\ trades = <<>>
    /\ opened = 0
    /\ pc = "start"
    /\ returns = <<>>
    /\ eval_position = "none"
    /\ eval_entry_price = 0
    /\ point_idx = 0
    /\ performance_score = Null
    /\ perf_pc = "start"

\* strategy.py:229-235 with the stop-loss and profit-target tests removed
ShouldExit_SignalOnly(pos, sig, close) == sig = "exit"

\* strategy.py:209-248  one iteration of the engine's loop, the signal of the
\* bar being bar_signals, and the exit decided by the signal alone
SignalOnlyLoopBody ==
    /\ pc = "loop"
    /\ i < Len(data_points)
    /\ LET sig == bar_signals[i + 1]
           date == Point(i).date
           current_close == Point(i).close
       IN  /\ signal' = sig
           /\ IF CanEnter(position, sig)
              THEN /\ position' = [type |-> sig,
                                   entry_date |-> date,
                                   entry_price |-> current_close,
                                   size |-> position_size,
                                   stop_loss |-> StopLossLevel(sig, current_close),
                                   profit_target |-> ProfitTargetLevel(sig, current_close)]
                   /\ opened' = opened + 1
                   /\ UNCHANGED trades
              ELSE IF position # NoPosition
              THEN IF ShouldExit_SignalOnly(position, sig, current_close)
                   THEN /\ trades' = Append(trades, MakeTrade(position, date, current_close))
                        /\ position' = NoPosition
                        /\ UNCHANGED opened
                   ELSE UNCHANGED <<position, trades, opened>>
              ELSE UNCHANGED <<position, trades, opened>>
    /\ i' = i + 1
    /\ UNCHANGED <<data_points, min_points, pc>>
    /\ UNCHANGED NotBacktest

\* ensemble.py:42-43  if len(evaluation_points) < 2: return
TooFewPoints ==
    /\ pc = "done"
    /\ perf_pc = "start"
    /\ Len(data_points) < 2
    /\ perf_pc' = "done"
    /\ UNCHANGED <<bar_signals, returns, eval_position, eval_entry_price, point_idx, performance_score>>
    /\ UNCHANGED NotPerformance

\* ensemble.py:51-53  returns = [], position = "none", entry_price = 0
BeginEvaluation ==
    /\ pc = "done"
    /\ perf_pc = "start"
    /\ Len(data_points) >= 2
    /\ returns' = <<>>
    /\ eval_position' = "none"
    /\ eval_entry_price' = 0
    /\ point_idx' = 0
    /\ perf_pc' = "loop"
    /\ UNCHANGED <<bar_signals, performance_score>>
    /\ UNCHANGED NotPerformance

\* ensemble.py:66-69  (point.close / entry_price) - 1  and  (entry_price / point.close) - 1
EvaluationReturn(pos, close, entry) ==
    IF pos = "long" THEN Frac(close - entry, entry)
    ELSE Frac(entry - close, close)

\* ensemble.py:55-70  one evaluation point
EvaluationPoint ==
    /\ perf_pc = "loop"
    /\ point_idx < Len(data_points)
    /\ LET point == data_points[point_idx + 1]
           sig == bar_signals[point_idx + 1]
       IN  IF sig = "long" /\ eval_position = "none"
           THEN /\ eval_position' = "long"
                /\ eval_entry_price' = point.close
                /\ UNCHANGED returns
           ELSE IF sig = "short" /\ eval_position = "none"
           THEN /\ eval_position' = "short"
                /\ eval_entry_price' = point.close
                /\ UNCHANGED returns
           ELSE IF sig = "exit" /\ eval_position # "none"
           THEN /\ returns' = Append(returns, EvaluationReturn(eval_position, point.close, eval_entry_price))
                /\ eval_position' = "none"
                /\ UNCHANGED eval_entry_price
           ELSE UNCHANGED <<returns, eval_position, eval_entry_price>>
    /\ point_idx' = point_idx + 1
    /\ UNCHANGED <<bar_signals, performance_score, perf_pc>>
    /\ UNCHANGED NotPerformance

Abs(x) == IF x < 0 THEN 0 - x ELSE x

RECURSIVE Gcd(_, _)
Gcd(a, b) == IF b = 0 THEN a ELSE Gcd(b, a % b)

\* the same number in lowest terms, the denominator positive
Reduced(f) ==
    LET g == Gcd(Abs(f.num), Abs(f.den))
    IN  Frac(Sign(f.den) * (f.num \div g), Abs(f.den) \div g)

FracPlus(f, g) == Reduced(Frac(f.num * g.den + g.num * f.den, f.den * g.den))
FracMinus(f, g) == Reduced(Frac(f.num * g.den - g.num * f.den, f.den * g.den))
FracTimes(f, g) == Reduced(Frac(f.num * g.num, f.den * g.den))

RECURSIVE FracSum(_, _)
FracSum(rs, n) == IF n = 0 THEN Frac(0, 1) ELSE FracPlus(FracSum(rs, n - 1), rs[n])

\* np.mean
Mean(rs) == FracTimes(FracSum(rs, Len(rs)), Frac(1, Len(rs)))

\* the square of np.std: the mean of the squared deviations from the mean
Variance(rs) ==
    LET m == Mean(rs)
        sq == [n \in DOMAIN rs |-> FracTimes(FracMinus(rs[n], m), FracMinus(rs[n], m))]
    IN  Mean(sq)

\* A float that may be a square root is kept as its sign and its square;
\* "inf", "-inf" and "nan" are what a float64 division by zero gives.
Finite(sgn, sq) == [kind |-> "finite", sign |-> sgn, square |-> sq]
NotFinite(kd) == [kind |-> kd, sign |-> 0, square |-> Frac(0, 1)]

\* ensemble.py:75  np.mean(returns) / (np.std(returns) if len(returns) > 1 else 1)
Sharpe(rs) ==
    LET m == Mean(rs)
        v == Variance(rs)
    IN  IF Len(rs) > 1
        THEN IF v.num = 0
             THEN NotFinite(IF m.num > 0 THEN "inf" ELSE IF m.num < 0 THEN "-inf" ELSE "nan")
             ELSE Finite(Sign(m.num), FracTimes(FracTimes(m, m), Frac(v.den, v.num)))
        ELSE Finite(Sign(m.num), FracTimes(m, m))

\* ensemble.py:74-76  (avg_return * sharpe) if sharpe > 0 else -abs(avg_return)
PerformanceScore(rs) ==
    LET avg_return == Mean(rs)
        sharpe == Sharpe(rs)
    IN  IF sharpe.kind = "inf"
        THEN NotFinite("inf")
        ELSE IF sharpe.kind = "finite" /\ sharpe.sign > 0
        THEN Finite(1, FracTimes(FracTimes(avg_return, avg_return), sharpe.square))
        ELSE Finite(0 - Abs(Sign(avg_return.num)), FracTimes(avg_return, avg_return))

\* ensemble.py:73-77  the score of the window, when it has a trade
ScoreWindow ==
    /\ perf_pc = "loop"
    /\ point_idx >= Len(data_points)
    /\ performance_score' = IF returns # <<>> THEN Some(PerformanceScore(returns)) ELSE Null
    /\ perf_pc' = "done"
    /\ UNCHANGED <<bar_signals, returns, eval_position, eval_entry_price, point_idx>>
    /\ UNCHANGED NotPerformance

NextPerformance ==
    \/ BeginLoop
    \/ SignalOnlyLoopBody
    \/ CloseAtEnd
    \/ TooFewPoints
    \/ BeginEvaluation
    \/ EvaluationPoint
    \/ ScoreWindow

SpecPerformance == InitPerformance /\ [][NextPerformance]_vars

\* the return_pct of each trade, in order
ReturnPcts(ts) == [n \in DOMAIN ts |-> ts[n].return_pct]

\* C24: over the same bars and the same signals, the returns the ensemble's
\* performance evaluation collects are the return_pct of the trades the
\* backtest engine emits when only signals decide the exits, a position still
\* open at the end of the window included.
C24_EvaluationMatchesEngine ==
    (perf_pc = "done" /\ Len(data_points) >= 2) => returns = ReturnPcts(trades)

\* C25: a return list with standard deviation 0 gives a Sharpe-like ratio of
\* 0, and the performance score the ensemble appends is always finite.
C25_SharpeGuarded ==
    (perf_pc = "done" /\ returns # <<>>) =>
        /\ performance_score # Null
        /\ performance_score[1].kind = "finite"
        /\ Variance(returns).num = 0 =>
              Sharpe(returns) = Finite(0, Frac(0, 1))

\* ================================================ the buy-and-hold baseline
\* annualized_return is kept as the power it is one less than:
\* power_of ** exponent - 1
PowerMinusOne(b, e) == [power_of |-> b, exponent |-> e]
ZeroReturn == PowerMinusOne(Frac(1, 1), Frac(1, 1))

\* strategy.py:56-61
ZeroBaseline ==
    [start_price |-> 0, end_price |-> 0,
     total_return |-> Frac(0, 1), annualized_return |-> ZeroReturn]

\* strategy.py:43-48  the call: the symbol's series, the requested range,
\* start_price = None, end_price = None
InitBuyHold ==
    /\ BacktestOff
    /\ EvalOff
    /\ TrackerOff
    /\ EnsembleOff
    /\ MergeOff
    /\ TriggersOff
    /\ PerformanceOff
    /\ historical \in AllSeries
    /\ start_date \in Dates
    /\ end_date \in Dates
    /\ start_date <= end_date
    /\ start_price = Null
    /\ end_price = Null
    /\ bh_idx = 0
    /\ baseline = Null
    /\ bh_pc = "loop"

\* strategy.py:49-54  one point of the loop
BuyHoldPoint ==
    /\ bh_pc = "loop"
    /\ bh_idx < Len(historical)
    /\ LET point == historical[bh_idx + 1]
       IN  /\ start_price' = IF point.date >= start_date /\ start_price = Null
                             THEN Some(point.close) ELSE start_price
           /\ end_price' = IF point.date <= end_date THEN Some(point.close) ELSE end_price
    /\ bh_idx' = bh_idx + 1
    /\ UNCHANGED <<historical, start_date, end_date, baseline, bh_pc>>
    /\ UNCHANGED NotBuyHold

\* strategy.py:56-73
BuyHoldReturn ==
    /\ bh_pc = "loop"
    /\ bh_idx >= Len(historical)
    /\ baseline' =
         IF start_price = Null \/ end_price = Null
         THEN Some(ZeroBaseline)
         ELSE LET total_return == Frac(end_price[1] - start_price[1], start_price[1])
                  days == end_date - start_date
              IN  Some([start_price |-> start_price[1],
                        end_price |-> end_price[1],
                        total_return |-> total_return,
                        annualized_return |->
                            IF days > 0
                            THEN PowerMinusOne(Frac(end_price[1], start_price[1]), Frac(365, days))
                            ELSE ZeroReturn])
    /\ bh_pc' = "done"
    /\ UNCHANGED <<historical, start_date, end_date, start_price, end_price, bh_idx>>
    /\ UNCHANGED NotBuyHold

NextBuyHold == BuyHoldPoint \/ BuyHoldReturn

SpecBuyHold == InitBuyHold /\ [][NextBuyHold]_vars

\* the bars of the series dated inside the requested range
InRange == {n \in DOMAIN historical :
                historical[n].date >= start_date /\ historical[n].date <= end_date}

\* C26: the baseline's start_price and end_price are the closes of the first
\* and of the last bar dated inside [start_date, end_date], and the baseline
\* is all zero when no bar lies inside the range.
C26_PricesFromRange ==
    bh_pc = "done" =>
        IF InRange = {}
        THEN baseline = Some(ZeroBaseline)
        ELSE /\ baseline[1].start_price =
                    historical[CHOOSE n \in InRange : \A m \in InRange : n <= m].close
             /\ baseline[1].end_price =
                    historical[CHOOSE n \in InRange : \A m \in InRange : n >= m].close

\* ------------------------------------------- predictions of type CLOSE
\* the row of the predictions table for the prediction under evaluation,
\* once update_prediction_outcomes has written the evaluator's result
ResolvedRow(strategies) ==
    [strategies |-> strategies] @@
    Updated(NewPrediction(date_issued, [action |-> "EXIT", type |-> pred_type,
                                        stop_loss |-> stop_loss, take_profit |-> take_profit]),
            result)

\* C28: a prediction of type CLOSE is never resolved by a stop-loss or
\* take-profit test; it resolves only at timeout, with pnl 0 and return_pct 0,
\* is labelled failure, and counts as a failed prediction of each strategy
\* backing it.
C28_CloseOnlyTimesOut ==
    pred_type = "CLOSE" =>
        /\ outcome_type \in {"none", "timeout"}
        /\ result # NoResult =>
              /\ outcome_type = "timeout"
              /\ result.pnl = 0
              /\ result.return_pct.num = 0
              /\ result.outcome = "failure"
              /\ LET perf == calculate_strategy_performance(<<ResolvedRow(<<"S1", "S2">>)>>)
                 IN  \A s \in {"S1", "S2"} :
                        /\ perf[s].total_predictions = 1
                        /\ perf[s].failed_predictions = 1
                        /\ perf[s].successful_predictions = 0

\* C28 witness: the first bar after date_issued trades through the stop and
\* the prediction still resolves later, at the timeout bar, away from entry.
C28_Witness ==
    /\ pred_type = "CLOSE"
    /\ result # NoResult
    /\ k >= 1
    /\ e_points[1].date > date_issued
    /\ e_points[1].low <= stop_loss
    /\ result.exit_price # entry_price

\* ================================== EnsembleStrategy's public operations
\* add_data, generate_signals, analyze and backtest called in any order on
\* one instance.  The components' answers are inputs of each call.
PublicOutputs ==
    {Hold, [signal |-> "long", confidence |-> 6], [signal |-> "short", confidence |-> 2],
     [signal |-> "exit", confidence |-> 6]}

PublicSeries ==
    {<<>>, <<[date |-> 1, close |-> 100], [date |-> 2, close |-> 105]>>}

\* what a component's backtest can return on the series: no trade, or one
\* long trade from the first bar to the last
ComponentTrades(points) ==
    {<<>>} \cup
    (IF Len(points) < 2 THEN {}
     ELSE {<<MakeTrade([type |-> "long", entry_date |-> points[1].date,
                        entry_price |-> points[1].close, size |-> position_size],
                       points[Len(points)].date, points[Len(points)].close)>>})

\* ensemble.py:8-18  a new instance
InitPublic ==
    /\ BuyHoldOff
    /\ PerformanceOff
    /\ TriggersOff
    /\ MergeOff
    /\ BacktestOff
    /\ EvalOff
    /\ TrackerOff
    /\ strategy_weights = [c \in Components |-> InitialWeight]
    /\ performance_history = [c \in Components |-> <<>>]
    /\ processing = "X"
    /\ evals = 0
    /\ updates = 0
    /\ prev_weights = [c \in Components |-> InitialWeight]
    /\ ens_op = "init"
    /\ component_signals = [c \in Components |-> Hold]
    /\ enough_points = FALSE
    /\ combined = NoCombined

\* ensemble.py:26-30  the series is handed to the ensemble and its components
PublicAddData ==
    /\ \E s \in PublicSeries : data_points' = s
    /\ UNCHANGED <<min_points, i, signal, position, trades, opened, pc>>
    /\ UNCHANGED NotBacktest

\* variant: the call adjusts a weight before combining
PublicGenerateSignals_Learns ==
    /\ \E sigs \in [Components -> PublicOutputs], enough \in BOOLEAN :
        /\ component_signals' = sigs
        /\ enough_points' = enough
        /\ combined' = generate_signals(sigs, enough)
    /\ strategy_weights' = [strategy_weights EXCEPT !["A"] = InitialWeight \div 2]
    /\ UNCHANGED <<performance_history, processing, evals, updates, prev_weights, ens_op>>
    /\ UNCHANGED NotEnsemble

\* ensemble.py:109-154  one call of generate_signals
PublicGenerateSignals ==
    /\ \E sigs \in [Components -> PublicOutputs], enough \in BOOLEAN :
        /\ component_signals' = sigs
        /\ enough_points' = enough
        /\ combined' = generate_signals(sigs, enough)
    /\ UNCHANGED wvars
    /\ UNCHANGED NotEnsemble

NoMetrics == [c \in {} |-> 0]

\* ensemble.py:156-235  the entry of one symbol in the dict analyze returns
analyze(sigs) ==
    IF \A c \in Components : sigs[c].signal = "hold"
    THEN [signal |-> "hold", confidence |-> Frac(0, 1), metrics |-> strategy_weights,
          details |-> "No active signals from component strategies"]
    ELSE IF TotalConfidence(sigs) = 0
    THEN [signal |-> "hold", confidence |-> Frac(0, 1), metrics |-> NoMetrics,
          details |-> "No confident signals"]
    ELSE [signal |-> IF 10 * Bucket(sigs, Dominant(sigs)) > min_confidence_threshold * TotalConfidence(sigs)
                     THEN Dominant(sigs) ELSE "hold",
          confidence |-> Frac(Bucket(sigs, Dominant(sigs)), TotalConfidence(sigs)),
          metrics |-> strategy_weights,
          details |-> "joined details"]

\* ensemble.py:156-235  one call of analyze
PublicAnalyze ==
    /\ \E sigs \in [Components -> PublicOutputs] :
        /\ component_signals' = sigs
        /\ combined' = analyze(sigs)
    /\ UNCHANGED enough_points
    /\ UNCHANGED wvars
    /\ UNCHANGED NotEnsemble

\* ensemble.py:237-277  one call of backtest, the components' results given
PublicBacktest ==
    /\ \E results \in [1..Len(BacktestComponents) -> ComponentTrades(data_points)] :
        /\ strategy_results' = results
        /\ LET combined_trades == Concat(results, Len(results))
           IN  all_trades' = SortByEntry(combined_trades, Len(combined_trades))
    /\ UNCHANGED component
    /\ UNCHANGED bvars
    /\ UNCHANGED NotMerge

NextPublic == PublicAddData \/ PublicGenerateSignals \/ PublicAnalyze \/ PublicBacktest

SpecPublic == InitPublic /\ [][NextPublic]_vars

\* C30: no public operation changes strategy_weights or performance_history:
\* every weight stays at 1.0 and every history empty, and two calls in a row
\* of the same operation on the same component answers give the same output.
C30_PublicOpsKeepWeights ==
    /\ [](/\ strategy_weights = [c \in Components |-> InitialWeight]
          /\ performance_history = [c \in Components |-> <<>>])
    /\ [][/\ strategy_weights' = strategy_weights
          /\ performance_history' = performance_history]_vars
    /\ [][(/\ combined # NoCombined
           /\ DOMAIN combined' = DOMAIN combined
           /\ component_signals' = component_signals
           /\ enough_points' = enough_points)
             => combined' = combined]_vars

\* C30 witness: data was added, generate_signals ran with sufficient history,
\* backtest returned trades and analyze ran last, giving a signal.
C30_Witness ==
    /\ data_points # <<>>
    /\ enough_points
    /\ all_trades # <<>>
    /\ combined # NoCombined
    /\ "metrics" \in DOMAIN combined
    /\ combined.signal # "hold"

====
